---- MODULE Spec2Model ----
(***************************************************************************)
(* Plugin-collection import of AstrBot-Plugin-Manager.                     *)
(*                                                                         *)
(* The model follows one POST /plugin/collection/import request through    *)
(* CollectionRoute.import_collection, PluginCollection.from_dict and       *)
(* CollectionImporter.import_collection.  The lifecycle collaborator       *)
(* (PluginManager), the conflict-detection capability and the key-value    *)
(* store are the environment: each awaited call is a call step followed by *)
(* a return step whose outcome (returned, raised, cancelled) is chosen     *)
(* nondeterministically.  The install phase is the only concurrent part:   *)
(* one asyncio task per plugin, gated by asyncio.Semaphore(3) and joined   *)
(* by asyncio.gather(..., return_exceptions=True).                         *)
(*                                                                         *)
(* Further specifications over the same variables follow the priority      *)
(* shim, SensitiveFilter.filter_data, the import under fair scheduling,    *)
(* a preview followed by the import of the same document, and              *)
(* CollectionExporter.export.                                              *)
(***************************************************************************)
EXTENDS Integers, Sequences, FiniteSets, TLC

(***************************************************************************)
(* Bounds of the model.                                                    *)
(***************************************************************************)
\* length of the plugin lists that exceed the semaphore's capacity
MaxBatch == 4

(***************************************************************************)
(* JSON values of a request body.  Every value carries its JSON type; s is *)
(* the text of a string and n the value of an integer.                     *)
(***************************************************************************)
JStr(s) == [t |-> "string", s |-> s, n |-> 0]
JInt(n) == [t |-> "integer", s |-> "", n |-> n]
JNull == [t |-> "null", s |-> "", n |-> 0]
JAbsent == [t |-> "absent", s |-> "", n |-> 0]

\* The values SensitiveFilter.filter_data works on: a string is the sequence
\* of its characters, a mapping the sequence of its entries [k, v] in
\* insertion order, a list the sequence of its elements (as entries with an
\* empty k).
VStr(chars) == [t |-> "str", s |-> chars, n |-> 0, kids |-> <<>>]
VInt(n) == [t |-> "int", s |-> <<>>, n |-> n, kids |-> <<>>]
VNone == [t |-> "None", s |-> <<>>, n |-> 0, kids |-> <<>>]
VDict(entries) == [t |-> "dict", s |-> <<>>, n |-> 0, kids |-> entries]
VList(entries) == [t |-> "list", s |-> <<>>, n |-> 0, kids |-> entries]
Entry(k, v) == [k |-> k, v |-> v]
Element(v) == [k |-> <<>>, v |-> v]

\* A mapping is a set of <<key, value>> pairs with distinct keys.
Keys(m) == {e[1] : e \in m}
Get(m, k) == (CHOOSE e \in m : e[1] = k)[2]

\* A value of a configuration: an integer, or a nested mapping of integers.
Leaf(n) == [t |-> "int", n |-> n, sub |-> {}]
Nested(m) == [t |-> "dict", n |-> 0, sub |-> m]

\* a merge that descends into nested mappings
DeepMergeCfg(current_cfg, cfg) ==
    {IF /\ e[1] \in Keys(current_cfg)
        /\ e[2].t = "dict"
        /\ Get(current_cfg, e[1]).t = "dict"
     THEN <<e[1], Nested(e[2].sub \cup
                         {f \in Get(current_cfg, e[1]).sub : f[1] \notin Keys(e[2].sub)})>>
     ELSE e : e \in cfg}
    \cup {e \in current_cfg : e[1] \notin Keys(cfg)}

\* Python's {**current_cfg, **cfg}: cfg wins key by key at the top level.
MergeCfg(current_cfg, cfg) ==
    cfg \cup {e \in current_cfg : e[1] \notin Keys(cfg)}

\* A live configuration object of a star (None when present is FALSE).
NoConfig == [present |-> FALSE, map |-> {}]
Config(m) == [present |-> TRUE, map |-> m]

(***************************************************************************)
(* PluginCollection.JSON_SCHEMA and validate_dict.                         *)
(***************************************************************************)
SCHEMA_VERSION == "1.0"

IsString(v) == v.t = "string"

\* "maxLength" of metadata.name and metadata.description
NAME_MAX_LENGTH == 100
DESCRIPTION_MAX_LENGTH == 500

\* "metadata": object, seven required properties, no additional ones.
ValidMetadata(md) ==
    /\ md.t = "object"
    /\ IsString(md.name)
    /\ Len(md.name.s) <= NAME_MAX_LENGTH
    /\ IsString(md.description)
    /\ Len(md.description.s) <= DESCRIPTION_MAX_LENGTH
    /\ IsString(md.author)
    /\ IsString(md.version)
    /\ IsString(md.created_at)
    /\ IsString(md.astrbot_version)
    /\ md.plugin_count.t = "integer"
    /\ md.plugin_count.n >= 0
    /\ ~md.extra

\* "plugins" items: name, repo, version required strings, nothing else.
ValidPluginItem(p) ==
    /\ IsString(p.name)
    /\ IsString(p.repo)
    /\ IsString(p.version)
    /\ p.display_name.t \in {"string", "null", "absent"}
    /\ ~p.extra

\* a schema without the enum of schema_version
AnySchemaVersion(v) == IsString(v)

ValidSchemaVersion(v) == IsString(v) /\ v.s = SCHEMA_VERSION

\* Draft7Validator(JSON_SCHEMA).iter_errors(data) yields nothing.
ValidateDict(data) ==
    /\ ValidSchemaVersion(data.schema_version)
    /\ ValidMetadata(data.metadata)
    /\ data.plugins.t = "array"
    /\ \A i \in 1..Len(data.plugins.items) : ValidPluginItem(data.plugins.items[i])
    /\ data.plugin_configs.t \in {"object", "null", "absent"}
    /\ data.handler_priority_overrides.t \in {"object", "null", "absent"}
    /\ \A e \in data.handler_priority_overrides.items : e[2].t = "integer"
    /\ ~data.extra

\* a from_dict that applies str() to display_name without the test for None
PluginFromDictStr(p) ==
    [name |-> p.name.s, repo |-> p.repo.s, version |-> p.version.s,
     display_name |-> IF p.display_name.t = "string" THEN JStr(p.display_name.s)
                      ELSE JStr("None")]

\* CollectionPlugin.from_dict; display_name is JNull for None
PluginFromDict(p) ==
    [name |-> p.name.s, repo |-> p.repo.s, version |-> p.version.s,
     display_name |-> IF p.display_name.t = "string" THEN JStr(p.display_name.s)
                      ELSE JNull]

\* CollectionMetadata.from_dict
MetadataFromDict(md) ==
    [name |-> md.name.s, description |-> md.description.s, author |-> md.author.s,
     version |-> md.version.s, created_at |-> md.created_at.s,
     astrbot_version |-> md.astrbot_version.s, plugin_count |-> md.plugin_count.n]

\* PluginCollection.from_dict, after validate_dict has passed.  A None
\* plugin_configs / handler_priority_overrides keeps is_dict = FALSE.
FromDict(data) ==
    [schema_version |-> data.schema_version.s,
     metadata |-> MetadataFromDict(data.metadata),
     plugins |-> [i \in 1..Len(data.plugins.items) |->
                     PluginFromDict(data.plugins.items[i])],
     plugin_configs |-> [is_dict |-> data.plugin_configs.t = "object",
                         items |-> data.plugin_configs.items],
     handler_priority_overrides |->
         [is_dict |-> data.handler_priority_overrides.t = "object",
          items |-> {<<e[1], e[2].n>> : e \in data.handler_priority_overrides.items}]]

\* CollectionPlugin.to_dict: display_name only if it is not None
PluginToDict(p) ==
    [name |-> JStr(p.name), repo |-> JStr(p.repo), version |-> JStr(p.version),
     display_name |-> IF p.display_name = JNull THEN JAbsent ELSE p.display_name,
     extra |-> FALSE]

\* CollectionMetadata.to_dict
MetadataToDict(m) ==
    [t |-> "object", name |-> JStr(m.name), description |-> JStr(m.description),
     author |-> JStr(m.author), version |-> JStr(m.version),
     created_at |-> JStr(m.created_at), astrbot_version |-> JStr(m.astrbot_version),
     plugin_count |-> JInt(m.plugin_count), extra |-> FALSE]

\* PluginCollection.to_dict: plugin_configs and handler_priority_overrides
\* only if they are not None
ToDict(c) ==
    [schema_version |-> JStr(c.schema_version),
     metadata |-> MetadataToDict(c.metadata),
     plugins |-> [t |-> "array",
                  items |-> [i \in 1..Len(c.plugins) |-> PluginToDict(c.plugins[i])]],
     plugin_configs |->
         IF c.plugin_configs.is_dict
         THEN [t |-> "object", items |-> c.plugin_configs.items]
         ELSE [t |-> "absent", items |-> <<>>],
     handler_priority_overrides |->
         IF c.handler_priority_overrides.is_dict
         THEN [t |-> "object",
               items |-> {<<e[1], JInt(e[2])>> : e \in c.handler_priority_overrides.items}]
         ELSE [t |-> "absent", items |-> {}],
     extra |-> FALSE]

(***************************************************************************)
(* Documents and requests the checks draw from.                            *)
(***************************************************************************)
PluginNames == {"a", "b"}
HandlerNames == {"h1", "h2"}
ErrMsg == "boom"

RECURSIVE SubSeqs(_)
SubSeqs(s) ==
    IF s = <<>> THEN {<<>>}
    ELSE LET rest == SubSeqs(Tail(s))
         IN rest \cup {<<Head(s)>> \o r : r \in rest}

RawPlugin(name) ==
    [name |-> JStr(name), repo |-> JStr(name), version |-> JStr("1"),
     display_name |-> JAbsent, extra |-> FALSE]

RawMetadata(count) ==
    [t |-> "object", name |-> JStr("c"), description |-> JStr(""),
     author |-> JStr(""), version |-> JStr("1"), created_at |-> JStr("t"),
     astrbot_version |-> JStr("v"), plugin_count |-> JInt(count), extra |-> FALSE]

\* a document's plugin_configs: absent, or an object of (name, config) items
\* in insertion order; a config value is a mapping or not a mapping
CfgValue(m) == [is_dict |-> TRUE, map |-> m]
NotADict == [is_dict |-> FALSE, map |-> {}]
RawConfigs ==
    { [t |-> "absent", items |-> <<>>],
      [t |-> "object", items |-> <<[name |-> "a", cfg |-> CfgValue({<<"x", Leaf(2)>>})]>>],
      [t |-> "object", items |-> <<[name |-> "b", cfg |-> CfgValue({<<"x", Leaf(2)>>})],
                                   [name |-> "a", cfg |-> CfgValue({<<"y", Nested({<<"p", 2>>})>>, <<"z", Leaf(2)>>})]>>],
      [t |-> "object", items |-> <<[name |-> "a", cfg |-> NotADict],
                                   [name |-> "core", cfg |-> CfgValue({<<"x", Leaf(2)>>})]>>] }

RawOverrides ==
    { [t |-> "absent", items |-> {}],
      [t |-> "object", items |-> {}],
      [t |-> "object", items |-> {<<"h1", JInt(5)>>}] }

RawDoc(names, cfgs, ovr) ==
    [schema_version |-> JStr(SCHEMA_VERSION),
     metadata |-> RawMetadata(Len(names)),
     plugins |-> [t |-> "array", items |-> [i \in 1..Len(names) |-> RawPlugin(names[i])]],
     plugin_configs |-> cfgs,
     handler_priority_overrides |-> ovr,
     extra |-> FALSE]

\* the empty object {} the route substitutes for a non-object "collection"
EmptyDoc ==
    [schema_version |-> JAbsent,
     metadata |-> [RawMetadata(0) EXCEPT !.t = "absent"],
     plugins |-> [t |-> "absent", items |-> <<>>],
     plugin_configs |-> [t |-> "absent", items |-> <<>>],
     handler_priority_overrides |-> [t |-> "absent", items |-> {}],
     extra |-> FALSE]

\* documents the schema rejects, each by one violation
BrokenDocs ==
    LET d == RawDoc(<<"a", "b">>, [t |-> "absent", items |-> <<>>],
                    [t |-> "absent", items |-> {}])
    IN { EmptyDoc,
         [d EXCEPT !.schema_version = JStr("2.0")],
         [d EXCEPT !.schema_version = JAbsent],
         [d EXCEPT !.extra = TRUE],
         [d EXCEPT !.metadata.author = JAbsent],
         [d EXCEPT !.metadata.plugin_count = JInt(-1)],
         [d EXCEPT !.plugins.items[1].name = JInt(7)],
         [d EXCEPT !.plugins.items[2].repo = JAbsent],
         [d EXCEPT !.handler_priority_overrides =
                      [t |-> "object", items |-> {<<"h1", JStr("high")>>}]] }

ImportModes == {"add", "clean", "merge"}

NoConfigs == [t |-> "absent", items |-> <<>>]
SomeOverrides == [t |-> "object", items |-> {<<"h1", JInt(5)>>}]

\* plugin lists of exactly n plugins: k times "a", then "b"
BatchNames(n) == {[i \in 1..n |-> IF i <= k THEN "a" ELSE "b"] : k \in 0..n}

\* Requests that vary the plan (plugins, mode, installed plugins) and the
\* config merge, over the plugin lists without repetition.
PlanRequests ==
    [collection : {RawDoc(names, cfgs, SomeOverrides) :
                      names \in SubSeqs(<<"a", "b">>),
                      cfgs \in RawConfigs} \cup BrokenDocs,
     import_mode : ImportModes,
     apply_configs : BOOLEAN,
     overwrite_existing_configs : BOOLEAN,
     apply_priority : {TRUE}]

\* Requests that vary the priority overrides, the route's defaults otherwise.
PriorityRequests ==
    [collection : {RawDoc(names, NoConfigs, ovr) :
                      names \in {<<>>, <<"a">>}, ovr \in RawOverrides},
     import_mode : {"add", "clean"},
     apply_configs : {TRUE},
     overwrite_existing_configs : {FALSE},
     apply_priority : BOOLEAN]

\* Requests with plugin lists longer than the semaphore's capacity.
BatchRequests ==
    [collection : {RawDoc(names, cfgs, SomeOverrides) :
                      names \in BatchNames(MaxBatch),
                      cfgs \in {NoConfigs}},
     import_mode : ImportModes,
     apply_configs : {TRUE},
     overwrite_existing_configs : {FALSE},
     apply_priority : {TRUE}]

(***************************************************************************)
(* Installed plugins (plugin_manager.context.get_all_stars()).             *)
(***************************************************************************)
Star(name, reserved, config) ==
    [name |-> name, reserved |-> reserved, config |-> config]

\* the configuration a plugin comes with when installed from its repo
FreshConfig(name) ==
    IF name \in PluginNames
    THEN Config({<<"x", Leaf(1)>>, <<"y", Nested({<<"p", 1>>, <<"q", 1>>})>>})
    ELSE NoConfig

StarPool ==
    << Star("core", TRUE, NoConfig),
       Star("a", FALSE, FreshConfig("a")),
       Star("", FALSE, NoConfig) >>

\* two ordinary installed plugins, one of them unknown to every document
CleanPool ==
    << Star("a", FALSE, FreshConfig("a")),
       Star("c", FALSE, NoConfig) >>

StarNames(ss) == {ss[i].name : i \in 1..Len(ss)}
AllNames == PluginNames \cup StarNames(StarPool) \cup StarNames(CleanPool)

(***************************************************************************)
(* State.                                                                  *)
(***************************************************************************)
VARIABLES
    req,                \* the request body: collection and import options
    stars,              \* installed plugins, in get_all_stars() order
    sp_overrides,       \* sp value stored under "handler_priority_overrides"
    handlers,           \* star_handlers_registry._handlers, in dispatch order
    pc,                 \* position of the request in route and importer
    collection,         \* PluginCollection.from_dict(req.collection)
    installed_before,   \* importer.py line 69
    conflict_report,    \* importer.py line 71: "None" or "report"
    uninstall_queue,    \* stars the clean-mode loop has still to visit
    cur,                \* the plugin name of the awaited sequential call
    uninstalled,        \* importer.py line 75
    tasks,              \* the _install_one tasks handed to asyncio.gather
    sem,                \* asyncio.Semaphore(3)._value
    waiters,            \* asyncio.Semaphore._waiters (task indices, FIFO)
    cancel_requested,   \* the gather future was cancelled by the caller
    installed_results,  \* importer.py line 94
    failed_results,     \* importer.py line 95
    skipped_results,    \* importer.py line 96
    config_queue,       \* plugin_configs items the merge loop has still to visit
    configs_applied,    \* importer.py line 128
    priority_applied,   \* importer.py line 161
    response,           \* what the route returned
    started,            \* collaborator calls issued so far, per kind
    finished,           \* collaborator calls returned or raised so far, per kind
    called,             \* per kind, how often each plugin name was passed
    stars0,             \* the installed plugins when the request arrived
    reload_errors,      \* how many plugin_manager.reload calls have raised
    conflict_outcome,   \* how check_conflicts ended ("pending" before that)
    sp_get,             \* how sp.global_get of get_priority_overrides ended
    got,                \* what get_priority_overrides returned
    sp_put,             \* how sp.global_put of apply_priority_overrides ended
    handlers0,          \* the handler registry before any call of the shim
    reimported,         \* the request is the repetition of a successful import
    plan,               \* what preview returned for the document, if it was asked
    data,               \* the argument of SensitiveFilter.filter_data
    max_depth,          \* its keyword argument max_depth
    filtered            \* what filter_data returned

vars == << req, stars, sp_overrides, handlers, pc, collection, installed_before,
           conflict_report, uninstall_queue, cur, uninstalled, tasks, sem,
           waiters, cancel_requested, installed_results, failed_results,
           skipped_results, config_queue, configs_applied, priority_applied,
           response, started, finished, called, stars0, reload_errors, conflict_outcome,
           sp_get, got, sp_put, handlers0, reimported, plan,
           data, max_depth, filtered >>

envVars == << stars, sp_overrides, handlers >>
reportVars == << uninstalled, installed_results, failed_results, skipped_results,
                 configs_applied, priority_applied >>
batchVars == << tasks, sem, waiters, cancel_requested >>
shimVars == << sp_get, got, sp_put, handlers0 >>
filterVars == << data, max_depth, filtered >>
traceVars == << stars0, reload_errors, conflict_outcome, shimVars, reimported, plan,
               filterVars >>

CallKinds == {"conflict", "uninstall", "install", "save", "reload", "priority"}
NamedKinds == {"uninstall", "install", "save", "reload"}

Bump(counter, kind) == [counter EXCEPT ![kind] = @ + 1]
BumpName(bags, kind, name) == [bags EXCEPT ![kind][name] = @ + 1]

NoResponse == [status |-> "none", message |-> "", data |-> <<>>]
ErrorResponse(msg) == [status |-> "error", message |-> msg, data |-> <<>>]
OkResponse(result) == [status |-> "ok", message |-> "", data |-> <<result>>]

\* a handler of the registry with extras_configs["priority"]; numeric tells
\* whether int() accepts that value
Handler(name, priority) == [name |-> name, priority |-> priority, numeric |-> TRUE]
NonNumericHandler(name) == [name |-> name, priority |-> 0, numeric |-> FALSE]

Handlers0 == << Handler("h2", 3), Handler("h1", 0) >>

\* preview was not asked
NoPlan == <<>>

\* no call of filter_data
NoFilterCall ==
    /\ data = VNone
    /\ max_depth = 0
    /\ filtered = VNone

\* the service at the position at, nothing of a request done yet
InitAt(at, requests, installed) ==
    /\ req \in requests
    /\ stars \in installed
    /\ stars0 = stars
    /\ sp_overrides = {}
    /\ handlers = Handlers0
    /\ pc = at
    /\ collection = FromDict(EmptyDoc)
    /\ installed_before = {}
    /\ conflict_report = "None"
    /\ uninstall_queue = <<>>
    /\ cur = ""
    /\ uninstalled = <<>>
    /\ tasks = <<>>
    /\ sem = 0
    /\ waiters = <<>>
    /\ cancel_requested = FALSE
    /\ installed_results = <<>>
    /\ failed_results = <<>>
    /\ skipped_results = <<>>
    /\ config_queue = <<>>
    /\ configs_applied = 0
    /\ priority_applied = FALSE
    /\ response = NoResponse
    /\ started = [k \in CallKinds |-> 0]
    /\ finished = [k \in CallKinds |-> 0]
    /\ called = [k \in NamedKinds |-> [n \in AllNames |-> 0]]
    /\ reload_errors = 0
    /\ conflict_outcome = "pending"
    /\ sp_get = "none"
    /\ got = {}
    /\ sp_put = "none"
    /\ handlers0 = handlers
    /\ reimported = FALSE
    /\ plan = NoPlan

InitWith(requests, installed) ==
    /\ InitAt("route", requests, installed)
    /\ NoFilterCall

Init ==
    \/ InitWith(PlanRequests \cup PriorityRequests, SubSeqs(StarPool) \cup {CleanPool})
    \/ InitWith(BatchRequests, {<<>>, StarPool})

(***************************************************************************)
(* CollectionRoute.import_collection: parse and validate, then hand over   *)
(* to the importer.                                                        *)
(***************************************************************************)
\* PluginCollection.from_dict raises CollectionValidationError
RouteInvalid ==
    /\ pc = "route"
    /\ ~ValidateDict(req.collection)
    /\ response' = ErrorResponse("validation")
    /\ pc' = "responded"
    /\ UNCHANGED << req, envVars, collection, installed_before, conflict_report,
                    uninstall_queue, cur, reportVars, batchVars, config_queue,
                    started, finished, called, traceVars >>

RouteParsed ==
    /\ pc = "route"
    /\ ValidateDict(req.collection)
    /\ collection' = FromDict(req.collection)
    /\ pc' = "import"
    /\ UNCHANGED << req, envVars, installed_before, conflict_report,
                    uninstall_queue, cur, reportVars, batchVars, config_queue,
                    response, started, finished, called, traceVars >>

(***************************************************************************)
(* CollectionImporter.import_collection, sequential phases.                *)
(***************************************************************************)
\* an importer that accepts any import_mode
AnyImportMode(mode) == TRUE

ValidImportMode(mode) == mode \in {"add", "clean"}

\* raise ValueError("import_mode must be 'add' or 'clean'"), which the
\* route's "except Exception" turns into an error response
ImportBadMode ==
    /\ pc = "import"
    /\ ~ValidImportMode(req.import_mode)
    /\ response' = ErrorResponse("import_mode must be 'add' or 'clean'")
    /\ pc' = "responded"
    /\ UNCHANGED << req, envVars, collection, installed_before, conflict_report,
                    uninstall_queue, cur, reportVars, batchVars, config_queue,
                    started, finished, called, traceVars >>

ImportBegin ==
    /\ pc = "import"
    /\ ValidImportMode(req.import_mode)
    /\ installed_before' = StarNames(stars)
    /\ pc' = "conflict"
    /\ UNCHANGED << req, envVars, collection, conflict_report,
                    uninstall_queue, cur, reportVars, batchVars, config_queue,
                    response, started, finished, called, traceVars >>

\* keep = {p.name for p in collection.plugins}
Keep == {collection.plugins[i].name : i \in 1..Len(collection.plugins)}

\* list(get_all_stars()) of the clean-mode loop; no loop in add mode
UninstallList == IF req.import_mode = "clean" THEN stars ELSE <<>>

\* check_conflicts: the capability is absent (ImportError)
ConflictAbsent ==
    /\ pc = "conflict"
    /\ conflict_report' = "None"
    /\ started' = Bump(started, "conflict")
    /\ finished' = Bump(finished, "conflict")
    /\ uninstall_queue' = UninstallList
    /\ conflict_outcome' = "absent"
    /\ pc' = "uninstall"
    /\ UNCHANGED << req, envVars, collection, installed_before, cur, reportVars,
                    batchVars, config_queue, response, called, stars0,
                    reload_errors, shimVars, reimported, plan, filterVars >>

\* check_conflicts: await detect_conflicts(plugins)
ConflictCall ==
    /\ pc = "conflict"
    /\ started' = Bump(started, "conflict")
    /\ pc' = "conflict_wait"
    /\ UNCHANGED << req, envVars, collection, installed_before, conflict_report,
                    uninstall_queue, cur, reportVars, batchVars, config_queue,
                    response, finished, called, traceVars >>

ConflictReturn ==
    /\ pc = "conflict_wait"
    /\ conflict_report' = "report"
    /\ finished' = Bump(finished, "conflict")
    /\ uninstall_queue' = UninstallList
    /\ conflict_outcome' = "returned"
    /\ pc' = "uninstall"
    /\ UNCHANGED << req, envVars, collection, installed_before, cur, reportVars,
                    batchVars, config_queue, response, started, called,
                    stars0, reload_errors, shimVars, reimported, plan, filterVars >>

\* a check_conflicts without "except Exception": the error reaches the route
ConflictRaisePropagates ==
    /\ pc = "conflict_wait"
    /\ finished' = Bump(finished, "conflict")
    /\ conflict_outcome' = "raised"
    /\ response' = ErrorResponse(ErrMsg)
    /\ pc' = "responded"
    /\ UNCHANGED << req, envVars, collection, installed_before, conflict_report,
                    uninstall_queue, cur, reportVars, batchVars, config_queue,
                    started, called, stars0, reload_errors, shimVars, reimported, plan, filterVars >>

\* "except Exception": logged, treated as absent
ConflictRaise ==
    /\ pc = "conflict_wait"
    /\ conflict_report' = "None"
    /\ finished' = Bump(finished, "conflict")
    /\ uninstall_queue' = UninstallList
    /\ conflict_outcome' = "raised"
    /\ pc' = "uninstall"
    /\ UNCHANGED << req, envVars, collection, installed_before, cur, reportVars,
                    batchVars, config_queue, response, started, called,
                    stars0, reload_errors, shimVars, reimported, plan, filterVars >>

\* asyncio.CancelledError is no Exception: it leaves importer and route
CancelledAt(at, kind) ==
    /\ pc = at
    /\ finished' = Bump(finished, kind)
    /\ pc' = "cancelled"
    /\ UNCHANGED << req, envVars, collection, installed_before, conflict_report,
                    uninstall_queue, cur, reportVars, batchVars, config_queue,
                    response, started, called, traceVars >>

ConflictCancelled == CancelledAt("conflict_wait", "conflict")

\* the clean-mode loop without its test of p.reserved
ShouldUninstallReserved(p, keep) ==
    /\ p.name # ""
    /\ p.name \notin keep

\* the three "continue" tests of the clean-mode loop, importer.py 79-84
ShouldUninstall(p, keep) ==
    /\ ~p.reserved
    /\ p.name # ""
    /\ p.name \notin keep

UninstallSkip ==
    /\ pc = "uninstall"
    /\ uninstall_queue # <<>>
    /\ ~ShouldUninstall(Head(uninstall_queue), Keep)
    /\ uninstall_queue' = Tail(uninstall_queue)
    /\ UNCHANGED << req, envVars, pc, collection, installed_before, conflict_report,
                    cur, reportVars, batchVars, config_queue, response,
                    started, finished, called, traceVars >>

\* await self.plugin_manager.uninstall_plugin(p.name)
UninstallCall ==
    /\ pc = "uninstall"
    /\ uninstall_queue # <<>>
    /\ ShouldUninstall(Head(uninstall_queue), Keep)
    /\ cur' = Head(uninstall_queue).name
    /\ uninstall_queue' = Tail(uninstall_queue)
    /\ started' = Bump(started, "uninstall")
    /\ called' = BumpName(called, "uninstall", Head(uninstall_queue).name)
    /\ pc' = "uninstall_wait"
    /\ UNCHANGED << req, envVars, collection, installed_before, conflict_report,
                    reportVars, batchVars, config_queue, response, finished, traceVars >>

RemoveStar(ss, name) == SelectSeq(ss, LAMBDA s : s.name # name)

UninstallReturn ==
    /\ pc = "uninstall_wait"
    /\ stars' = RemoveStar(stars, cur)
    /\ uninstalled' = Append(uninstalled, [name |-> cur, status |-> "ok", message |-> ""])
    /\ finished' = Bump(finished, "uninstall")
    /\ pc' = "uninstall"
    /\ UNCHANGED << req, sp_overrides, handlers, collection, installed_before,
                    conflict_report, uninstall_queue, cur, installed_results,
                    failed_results, skipped_results, configs_applied,
                    priority_applied, batchVars, config_queue, response,
                    started, called, traceVars >>

\* a clean-mode loop whose "try" encloses the loop: the first failure ends it
UninstallRaiseEndsLoop ==
    /\ pc = "uninstall_wait"
    /\ uninstalled' = Append(uninstalled,
                             [name |-> cur, status |-> "error", message |-> ErrMsg])
    /\ finished' = Bump(finished, "uninstall")
    /\ uninstall_queue' = <<>>
    /\ pc' = "uninstall"
    /\ UNCHANGED << req, envVars, collection, installed_before,
                    conflict_report, cur, installed_results,
                    failed_results, skipped_results, configs_applied,
                    priority_applied, batchVars, config_queue, response,
                    started, called, traceVars >>

UninstallRaise ==
    /\ pc = "uninstall_wait"
    /\ uninstalled' = Append(uninstalled,
                             [name |-> cur, status |-> "error", message |-> ErrMsg])
    /\ finished' = Bump(finished, "uninstall")
    /\ pc' = "uninstall"
    /\ UNCHANGED << req, envVars, collection, installed_before,
                    conflict_report, uninstall_queue, cur, installed_results,
                    failed_results, skipped_results, configs_applied,
                    priority_applied, batchVars, config_queue, response,
                    started, called, traceVars >>

UninstallCancelled == CancelledAt("uninstall_wait", "uninstall")

(***************************************************************************)
(* Install phase: tasks, semaphore, gather (importer.py 94-126).           *)
(***************************************************************************)
\* asyncio.Semaphore(3)
SemCapacity == 3

\* an install phase that skips nothing
SkipInstallNever(mode, p, before) == FALSE

\* importer.py line 110: an add-mode import skips what was installed before
SkipInstall(mode, p, before) == mode = "add" /\ p.name \in before

MapSeq(s, F(_)) == [i \in 1..Len(s) |-> F(s[i])]

NewTask(p) == [name |-> p.name, repo |-> p.repo, st |-> "new", res |-> "none"]
SkippedEntry(p) == [name |-> p.name, reason |-> "already_installed"]

\* importer.py 108-113, then asyncio.gather creates one task per coroutine
InstallSetup ==
    /\ pc = "uninstall"
    /\ uninstall_queue = <<>>
    /\ skipped_results' =
         MapSeq(SelectSeq(collection.plugins,
                          LAMBDA p : SkipInstall(req.import_mode, p, installed_before)),
                SkippedEntry)
    /\ tasks' =
         MapSeq(SelectSeq(collection.plugins,
                          LAMBDA p : ~SkipInstall(req.import_mode, p, installed_before)),
                NewTask)
    /\ sem' = SemCapacity
    /\ waiters' = <<>>
    /\ pc' = "gather"
    /\ UNCHANGED << req, envVars, collection, installed_before, conflict_report,
                    uninstall_queue, cur, uninstalled, installed_results,
                    failed_results, configs_applied, priority_applied,
                    cancel_requested, config_queue, response, started, finished,
                    called, traceVars >>

TaskIds == 1..Len(tasks)

\* the event loop runs the tasks' first steps in creation order
IsNextNew(i) ==
    /\ tasks[i].st = "new"
    /\ \A j \in 1..(i - 1) : tasks[j].st # "new"

\* Semaphore.locked() without the test of the permit count
LockedByWaitersOnly(v, ts, ws) ==
    \E k \in 1..Len(ws) : ts[ws[k]].st \in {"waiting", "granted"}

\* Semaphore.locked(): no permit, or a waiter whose future is not cancelled
Locked(v, ts, ws) ==
    \/ v = 0
    \/ \E k \in 1..Len(ws) : ts[ws[k]].st \in {"waiting", "granted"}

\* Semaphore._wake_up_next(): hand a permit to the first waiter whose future
\* is not done
WakeUpNext(v, ts, ws) ==
    LET pending == {k \in 1..Len(ws) : ts[ws[k]].st = "waiting"}
    IN IF pending = {}
       THEN [sem |-> v, tasks |-> ts]
       ELSE LET k == CHOOSE x \in pending : \A y \in pending : x <= y
            IN [sem |-> v - 1, tasks |-> [ts EXCEPT ![ws[k]].st = "granted"]]

\* Semaphore.release()
Release(v, ts, ws) == WakeUpNext(v + 1, ts, ws)

Without(ws, i) == SelectSeq(ws, LAMBDA w : w # i)

batchFrame == << req, sp_overrides, handlers, pc, collection, installed_before,
                 conflict_report, uninstall_queue, cur, reportVars, config_queue,
                 response, stars0, reload_errors, conflict_outcome >>

\* "async with sem" finds a free permit and the task goes on to
\* await install_plugin(repo, proxy)
TaskAcquire(i) ==
    /\ pc = "gather"
    /\ i \in TaskIds
    /\ IsNextNew(i)
    /\ ~cancel_requested
    /\ ~Locked(sem, tasks, waiters)
    /\ sem' = sem - 1
    /\ tasks' = [tasks EXCEPT ![i].st = "running"]
    /\ started' = Bump(started, "install")
    /\ called' = BumpName(called, "install", tasks[i].name)
    /\ UNCHANGED << batchFrame, stars, waiters, cancel_requested, finished, shimVars, reimported, plan, filterVars >>

\* "async with sem" finds the semaphore locked and queues a waiter
TaskWait(i) ==
    /\ pc = "gather"
    /\ i \in TaskIds
    /\ IsNextNew(i)
    /\ ~cancel_requested
    /\ Locked(sem, tasks, waiters)
    /\ tasks' = [tasks EXCEPT ![i].st = "waiting"]
    /\ waiters' = Append(waiters, i)
    /\ UNCHANGED << batchFrame, stars, sem, cancel_requested, started, finished,
                    called, shimVars, reimported, plan, filterVars >>

\* a task cancelled before its first step never runs its body
TaskNeverRuns(i) ==
    /\ pc = "gather"
    /\ i \in TaskIds
    /\ IsNextNew(i)
    /\ cancel_requested
    /\ tasks' = [tasks EXCEPT ![i].st = "done", ![i].res = "cancelled"]
    /\ UNCHANGED << batchFrame, stars, sem, waiters, cancel_requested, started,
                    finished, called, shimVars, reimported, plan, filterVars >>

\* a woken waiter resumes in Semaphore.acquire() and calls install_plugin
TaskResume(i) ==
    /\ pc = "gather"
    /\ i \in TaskIds
    /\ tasks[i].st = "granted"
    /\ ~cancel_requested
    /\ LET ws == Without(waiters, i)
           ts == [tasks EXCEPT ![i].st = "running"]
           r == IF sem > 0 THEN WakeUpNext(sem, ts, ws)
                ELSE [sem |-> sem, tasks |-> ts]
       IN /\ waiters' = ws
          /\ tasks' = r.tasks
          /\ sem' = r.sem
    /\ started' = Bump(started, "install")
    /\ called' = BumpName(called, "install", tasks[i].name)
    /\ UNCHANGED << batchFrame, stars, cancel_requested, finished, shimVars, reimported, plan, filterVars >>

\* a woken waiter resumes with CancelledError: it gives the permit back
TaskResumeCancelled(i) ==
    /\ pc = "gather"
    /\ i \in TaskIds
    /\ tasks[i].st = "granted"
    /\ cancel_requested
    /\ LET ws == Without(waiters, i)
           r == Release(sem, [tasks EXCEPT ![i].st = "done", ![i].res = "cancelled"], ws)
       IN /\ waiters' = ws
          /\ tasks' = r.tasks
          /\ sem' = r.sem
    /\ UNCHANGED << batchFrame, stars, cancel_requested, started, finished, called, shimVars, reimported, plan, filterVars >>

\* a waiter whose future was cancelled leaves Semaphore.acquire()
TaskUnwind(i) ==
    /\ pc = "gather"
    /\ i \in TaskIds
    /\ tasks[i].st = "unwinding"
    /\ waiters' = Without(waiters, i)
    /\ tasks' = [tasks EXCEPT ![i].st = "done", ![i].res = "cancelled"]
    /\ UNCHANGED << batchFrame, stars, sem, cancel_requested, started, finished,
                    called, shimVars, reimported, plan, filterVars >>

\* what a successful install_plugin(repo) leaves installed
AddStar(ss, name) ==
    IF name \in StarNames(ss) THEN ss
    ELSE Append(ss, Star(name, FALSE, FreshConfig(name)))

\* the end of _install_one: the outcome is kept and "async with" releases
Finish(i, outcome) ==
    LET r == Release(sem, [tasks EXCEPT ![i].st = "done", ![i].res = outcome], waiters)
    IN /\ tasks' = r.tasks
       /\ sem' = r.sem
       /\ finished' = Bump(finished, "install")

\* install_plugin returned: {"name", "status": "ok", "message": "installed"}
InstallReturn(i) ==
    /\ pc = "gather"
    /\ i \in TaskIds
    /\ tasks[i].st = "running"
    /\ Finish(i, "ok")
    /\ stars' = AddStar(stars, tasks[i].repo)
    /\ UNCHANGED << batchFrame, waiters, cancel_requested, started, called, shimVars, reimported, plan, filterVars >>

\* an error path that leaves the gate without giving the permit back
InstallRaiseKeepsPermit(i) ==
    /\ pc = "gather"
    /\ i \in TaskIds
    /\ tasks[i].st = "running"
    /\ tasks' = [tasks EXCEPT ![i].st = "done", ![i].res = "error"]
    /\ finished' = Bump(finished, "install")
    /\ UNCHANGED << batchFrame, stars, sem, waiters, cancel_requested, started, called,
                    shimVars, reimported, plan, filterVars >>

\* install_plugin raised: "except Exception" returns the error entry
InstallRaise(i) ==
    /\ pc = "gather"
    /\ i \in TaskIds
    /\ tasks[i].st = "running"
    /\ Finish(i, "error")
    /\ UNCHANGED << batchFrame, stars, waiters, cancel_requested, started, called, shimVars, reimported, plan, filterVars >>

\* install_plugin raised asyncio.CancelledError, which "except Exception"
\* does not catch: the task ends cancelled
InstallCancelled(i) ==
    /\ pc = "gather"
    /\ i \in TaskIds
    /\ tasks[i].st = "running"
    /\ Finish(i, "cancelled")
    /\ UNCHANGED << batchFrame, stars, waiters, cancel_requested, started, called, shimVars, reimported, plan, filterVars >>

\* a join that returns when the first task is done
AnyDone == \E i \in TaskIds : tasks[i].st = "done"

AllDone == \A i \in TaskIds : tasks[i].st = "done"

\* the caller cancels import_collection while it awaits the gather future:
\* _GatheringFuture.cancel() cancels every child that is not done
BatchCancel ==
    /\ pc = "gather"
    /\ tasks # <<>>
    /\ ~cancel_requested
    /\ cancel_requested' = TRUE
    /\ tasks' = [i \in TaskIds |->
                   IF tasks[i].st = "waiting"
                   THEN [tasks[i] EXCEPT !.st = "unwinding"]
                   ELSE tasks[i]]
    /\ UNCHANGED << batchFrame, stars, sem, waiters, started, finished, called, shimVars, reimported, plan, filterVars >>

\* a result loop that does not tell CancelledError from a result
CancelledNone(ts) == {}

\* the results of the tasks, in task order, up to the first CancelledError
Cancelled(ts) == {i \in 1..Len(ts) : ts[i].res = "cancelled"}
Processed(ts) ==
    IF Cancelled(ts) = {} THEN ts
    ELSE SubSeq(ts, 1, (CHOOSE x \in Cancelled(ts) : \A y \in Cancelled(ts) : x <= y) - 1)

InstalledEntry(t) == [name |-> t.name, status |-> "ok", message |-> "installed"]
\* a failure entry that loses the plugin's name
FailedEntryUnknown(t) == [name |-> "unknown", status |-> "error", message |-> ErrMsg]
FailedEntry(t) == [name |-> t.name, status |-> "error", message |-> ErrMsg]

\* importer.py 116-126
InstalledOf(ts) == MapSeq(SelectSeq(Processed(ts), LAMBDA t : t.res = "ok"), InstalledEntry)
FailedOf(ts) == MapSeq(SelectSeq(Processed(ts), LAMBDA t : t.res = "error"), FailedEntry)

\* importer.py line 129
ConfigList ==
    IF req.apply_configs /\ collection.plugin_configs.is_dict
    THEN collection.plugin_configs.items ELSE <<>>

\* the gather future was cancelled: "await asyncio.gather" raises
GatherCancelled ==
    /\ pc = "gather"
    /\ AllDone
    /\ cancel_requested
    /\ pc' = "cancelled"
    /\ UNCHANGED << req, envVars, collection, installed_before, conflict_report,
                    uninstall_queue, cur, reportVars, batchVars, config_queue,
                    response, started, finished, called, traceVars >>

\* a result is a CancelledError: "raise r" at importer.py line 118
GatherReraise ==
    /\ pc = "gather"
    /\ AllDone
    /\ ~cancel_requested
    /\ Cancelled(tasks) # {}
    /\ installed_results' = InstalledOf(tasks)
    /\ failed_results' = FailedOf(tasks)
    /\ pc' = "cancelled"
    /\ UNCHANGED << req, envVars, collection, installed_before, conflict_report,
                    uninstall_queue, cur, uninstalled, skipped_results,
                    configs_applied, priority_applied, batchVars, config_queue,
                    response, started, finished, called, traceVars >>

GatherDone ==
    /\ pc = "gather"
    /\ AllDone
    /\ ~cancel_requested
    /\ Cancelled(tasks) = {}
    /\ installed_results' = InstalledOf(tasks)
    /\ failed_results' = FailedOf(tasks)
    /\ config_queue' = ConfigList
    /\ pc' = "config"
    /\ UNCHANGED << req, envVars, collection, installed_before, conflict_report,
                    uninstall_queue, cur, uninstalled, skipped_results,
                    configs_applied, priority_applied, batchVars,
                    response, started, finished, called, traceVars >>

(***************************************************************************)
(* Config-merge phase (importer.py 128-159).                               *)
(***************************************************************************)
\* context.get_registered_star(plugin_name): the star's config, None if absent
Registered(ss, name) == {i \in 1..Len(ss) : ss[i].name = name}
ConfigOf(ss, name) ==
    IF Registered(ss, name) = {} THEN NoConfig
    ELSE ss[CHOOSE i \in Registered(ss, name) : TRUE].config

\* "not md or not md.config": no star, no config object, or an empty one
HasLiveConfig(ss, name) ==
    /\ Registered(ss, name) # {}
    /\ ConfigOf(ss, name).present
    /\ ConfigOf(ss, name).map # {}

\* a merge loop that does not protect existing configuration
KeepExistingNever(mode, is_existing, overwrite) == FALSE

\* importer.py 140-145: existing user configuration is not touched
KeepExisting(mode, is_existing, overwrite) ==
    mode = "add" /\ is_existing /\ ~overwrite

\* the three "continue" tests of the merge loop
ShouldMerge(item) ==
    /\ item.cfg.is_dict
    /\ HasLiveConfig(stars, item.name)
    /\ ~KeepExisting(req.import_mode, item.name \in installed_before,
                     req.overwrite_existing_configs)

SetConfig(ss, name, cfg) ==
    [i \in 1..Len(ss) |-> IF ss[i].name = name THEN [ss[i] EXCEPT !.config = cfg]
                          ELSE ss[i]]

configFrame == << req, sp_overrides, handlers, collection, installed_before,
                  conflict_report, uninstall_queue, uninstalled, installed_results,
                  failed_results, skipped_results, priority_applied, batchVars,
                  response, stars0 >>

ConfigSkip ==
    /\ pc = "config"
    /\ config_queue # <<>>
    /\ ~ShouldMerge(Head(config_queue))
    /\ config_queue' = Tail(config_queue)
    /\ UNCHANGED << configFrame, stars, pc, cur, configs_applied, started, finished,
                    called, reload_errors, conflict_outcome, shimVars, reimported, plan, filterVars >>

\* a merge loop that does not count the plugin when save_config returns
ConfigSaveUncounted ==
    /\ pc = "config"
    /\ config_queue # <<>>
    /\ ShouldMerge(Head(config_queue))
    /\ LET item == Head(config_queue)
           merged_cfg == MergeCfg(ConfigOf(stars, item.name).map, item.cfg.map)
       IN /\ stars' = SetConfig(stars, item.name, Config(merged_cfg))
          /\ cur' = item.name
          /\ called' = BumpName(BumpName(called, "save", item.name), "reload", item.name)
    /\ config_queue' = Tail(config_queue)
    /\ started' = Bump(Bump(started, "save"), "reload")
    /\ finished' = Bump(finished, "save")
    /\ pc' = "reload_wait"
    /\ UNCHANGED << configFrame, configs_applied, reload_errors, conflict_outcome,
                    shimVars, reimported, plan, filterVars >>

\* md.config.save_config(merged_cfg) returns; configs_applied += 1;
\* then await self.plugin_manager.reload(plugin_name)
ConfigSave ==
    /\ pc = "config"
    /\ config_queue # <<>>
    /\ ShouldMerge(Head(config_queue))
    /\ LET item == Head(config_queue)
           merged_cfg == MergeCfg(ConfigOf(stars, item.name).map, item.cfg.map)
       IN /\ stars' = SetConfig(stars, item.name, Config(merged_cfg))
          /\ cur' = item.name
          /\ called' = BumpName(BumpName(called, "save", item.name), "reload", item.name)
    /\ config_queue' = Tail(config_queue)
    /\ configs_applied' = configs_applied + 1
    /\ started' = Bump(Bump(started, "save"), "reload")
    /\ finished' = Bump(finished, "save")
    /\ pc' = "reload_wait"
    /\ UNCHANGED << configFrame, reload_errors, conflict_outcome, shimVars, reimported, plan, filterVars >>

\* md.config.save_config(merged_cfg) raises: logged, next item
ConfigSaveRaise ==
    /\ pc = "config"
    /\ config_queue # <<>>
    /\ ShouldMerge(Head(config_queue))
    /\ called' = BumpName(called, "save", Head(config_queue).name)
    /\ config_queue' = Tail(config_queue)
    /\ started' = Bump(started, "save")
    /\ finished' = Bump(finished, "save")
    /\ UNCHANGED << configFrame, stars, pc, cur, configs_applied, reload_errors,
                    conflict_outcome, shimVars, reimported, plan, filterVars >>

ReloadReturn ==
    /\ pc = "reload_wait"
    /\ finished' = Bump(finished, "reload")
    /\ pc' = "config"
    /\ UNCHANGED << configFrame, stars, cur, config_queue, configs_applied, started,
                    called, reload_errors, conflict_outcome, shimVars, reimported, plan, filterVars >>

\* a merge loop without "except Exception": the error reaches the route
ReloadRaisePropagates ==
    /\ pc = "reload_wait"
    /\ finished' = Bump(finished, "reload")
    /\ reload_errors' = reload_errors + 1
    /\ response' = ErrorResponse(ErrMsg)
    /\ pc' = "responded"
    /\ UNCHANGED << req, envVars, collection, installed_before, conflict_report,
                    uninstall_queue, cur, reportVars, batchVars, config_queue,
                    started, called, stars0, conflict_outcome, shimVars, reimported, plan, filterVars >>

\* reload raises: "except Exception" logs it, next item
ReloadRaise ==
    /\ pc = "reload_wait"
    /\ finished' = Bump(finished, "reload")
    /\ reload_errors' = reload_errors + 1
    /\ pc' = "config"
    /\ UNCHANGED << configFrame, stars, cur, config_queue, configs_applied, started,
                    called, conflict_outcome, shimVars, reimported, plan, filterVars >>

ReloadCancelled == CancelledAt("reload_wait", "reload")

(***************************************************************************)
(* Priority-apply phase (importer.py 161-167) and                          *)
(* PriorityCompatibility.apply_priority_overrides.                         *)
(***************************************************************************)
\* preview's "has_priority_overrides": bool(collection.handler_priority_overrides)
HasPriorityOverrides(c) ==
    c.handler_priority_overrides.is_dict /\ c.handler_priority_overrides.items # {}

\* importer.py 162-164
WantsPriority ==
    req.apply_priority /\ collection.handler_priority_overrides.is_dict

PrioritySkip ==
    /\ pc = "config"
    /\ config_queue = <<>>
    /\ ~WantsPriority
    /\ pc' = "report"
    /\ UNCHANGED << req, envVars, collection, installed_before, conflict_report,
                    uninstall_queue, cur, reportVars, batchVars, config_queue,
                    response, started, finished, called, traceVars >>

\* await sp.global_put("handler_priority_overrides", normalized)
PriorityCall ==
    /\ pc = "config"
    /\ config_queue = <<>>
    /\ WantsPriority
    /\ started' = Bump(started, "priority")
    /\ pc' = "priority_wait"
    /\ UNCHANGED << req, envVars, collection, installed_before, conflict_report,
                    uninstall_queue, cur, reportVars, batchVars, config_queue,
                    response, finished, called, traceVars >>

PriorityPutOk ==
    /\ pc = "priority_wait"
    /\ sp_overrides' = collection.handler_priority_overrides.items
    /\ priority_applied' = TRUE
    /\ sp_put' = "ok"
    /\ finished' = Bump(finished, "priority")
    /\ pc' = "report"
    /\ UNCHANGED << req, stars, handlers, collection, installed_before,
                    conflict_report, uninstall_queue, cur, uninstalled,
                    installed_results, failed_results, skipped_results,
                    configs_applied, batchVars, config_queue, response, started,
                    called, stars0, reload_errors, conflict_outcome,
                    sp_get, got, handlers0, reimported, plan, filterVars >>

\* handler.extras_configs["priority"] = int(priority) for every named handler
\* of the registry
ApplyToHandlers(hs, overrides) ==
    [i \in 1..Len(hs) |->
        IF hs[i].name \in Keys(overrides)
        THEN Handler(hs[i].name, Get(overrides, hs[i].name))
        ELSE hs[i]]

\* list.sort(key=lambda h: -priority): stable, descending by priority
RECURSIVE InsertByPriority(_, _)
InsertByPriority(sorted, h) ==
    IF sorted = <<>> THEN <<h>>
    ELSE IF Head(sorted).priority >= h.priority
         THEN <<Head(sorted)>> \o InsertByPriority(Tail(sorted), h)
         ELSE <<h>> \o sorted

RECURSIVE SortHandlers(_)
SortHandlers(hs) ==
    IF hs = <<>> THEN <<>>
    ELSE InsertByPriority(SortHandlers(SubSeq(hs, 1, Len(hs) - 1)), hs[Len(hs)])

\* the key function of the sort raises for a priority int() does not accept
SortRaises(hs) == \E i \in 1..Len(hs) : ~hs[i].numeric

\* a fallback that mutates the handlers and returns True without sorting
FallbackApplyUnsorted(hs, overrides) ==
    [handlers |-> ApplyToHandlers(hs, overrides), result |-> TRUE]

\* compatibility.py 43-57, after global_put raised: the registry is mutated
\* and re-sorted; a sort that raises leaves the list in its order and makes
\* the result False
FallbackApply(hs, overrides) ==
    LET mutated == ApplyToHandlers(hs, overrides)
    IN IF SortRaises(mutated)
       THEN [handlers |-> mutated, result |-> FALSE]
       ELSE [handlers |-> SortHandlers(mutated), result |-> TRUE]

\* global_put raises: the registry is mutated and re-sorted instead
PriorityPutFail ==
    /\ pc = "priority_wait"
    /\ LET r == FallbackApply(handlers, collection.handler_priority_overrides.items)
       IN /\ handlers' = r.handlers
          /\ priority_applied' = r.result
    /\ sp_put' = "raised"
    /\ finished' = Bump(finished, "priority")
    /\ pc' = "report"
    /\ UNCHANGED << req, stars, sp_overrides, collection, installed_before,
                    conflict_report, uninstall_queue, cur, uninstalled,
                    installed_results, failed_results, skipped_results,
                    configs_applied, batchVars, config_queue, response, started,
                    called, stars0, reload_errors, conflict_outcome,
                    sp_get, got, handlers0, reimported, plan, filterVars >>

PriorityCancelled == CancelledAt("priority_wait", "priority")

(***************************************************************************)
(* The report (importer.py 169-180) and the route's ok response.           *)
(***************************************************************************)
Result ==
    [installed |-> installed_results,
     failed |-> failed_results,
     skipped |-> skipped_results,
     uninstalled |-> uninstalled,
     configs_applied |-> configs_applied,
     priority_applied |-> priority_applied,
     conflicts |-> IF conflict_report # "None" THEN {conflict_report} ELSE {}]

Respond ==
    /\ pc = "report"
    /\ response' = OkResponse(Result)
    /\ pc' = "responded"
    /\ UNCHANGED << req, envVars, collection, installed_before, conflict_report,
                    uninstall_queue, cur, reportVars, batchVars, config_queue,
                    started, finished, called, traceVars >>

\* requests whose repetition is followed: those of a document without
\* plugin_configs, with the route's default options
ReimportRequests ==
    {r \in PlanRequests :
        /\ r.collection.plugin_configs = NoConfigs
        /\ r.apply_configs
        /\ ~r.overwrite_existing_configs}

\* every install and every uninstall of the returned report succeeded
AllSucceeded ==
    /\ pc = "responded"
    /\ response.status = "ok"
    /\ failed_results = <<>>
    /\ \A j \in 1..Len(uninstalled) : uninstalled[j].status = "ok"

\* the client sends the same document with the same options again, right
\* after an import in which everything succeeded: a new request against the
\* plugins, store and registry the first one left
Reimport ==
    /\ AllSucceeded
    /\ ~reimported
    /\ req \in ReimportRequests
    /\ reimported' = TRUE
    /\ pc' = "route"
    /\ stars0' = stars
    /\ handlers0' = handlers
    /\ collection' = FromDict(EmptyDoc)
    /\ installed_before' = {}
    /\ conflict_report' = "None"
    /\ conflict_outcome' = "pending"
    /\ uninstall_queue' = <<>>
    /\ cur' = ""
    /\ uninstalled' = <<>>
    /\ tasks' = <<>>
    /\ sem' = 0
    /\ waiters' = <<>>
    /\ installed_results' = <<>>
    /\ failed_results' = <<>>
    /\ skipped_results' = <<>>
    /\ config_queue' = <<>>
    /\ configs_applied' = 0
    /\ priority_applied' = FALSE
    /\ response' = NoResponse
    /\ started' = [k \in CallKinds |-> 0]
    /\ finished' = [k \in CallKinds |-> 0]
    /\ called' = [k \in NamedKinds |-> [n \in AllNames |-> 0]]
    /\ reload_errors' = 0
    /\ sp_put' = "none"
    /\ UNCHANGED << req, envVars, cancel_requested, sp_get, got, plan, filterVars >>

Next ==
    \/ RouteInvalid
    \/ RouteParsed
    \/ ImportBadMode
    \/ ImportBegin
    \/ ConflictAbsent
    \/ ConflictCall
    \/ ConflictReturn
    \/ ConflictRaise
    \/ ConflictCancelled
    \/ UninstallSkip
    \/ UninstallCall
    \/ UninstallReturn
    \/ UninstallRaise
    \/ UninstallCancelled
    \/ InstallSetup
    \/ \E i \in TaskIds : TaskAcquire(i)
    \/ \E i \in TaskIds : TaskWait(i)
    \/ \E i \in TaskIds : TaskNeverRuns(i)
    \/ \E i \in TaskIds : TaskResume(i)
    \/ \E i \in TaskIds : TaskResumeCancelled(i)
    \/ \E i \in TaskIds : TaskUnwind(i)
    \/ \E i \in TaskIds : InstallReturn(i)
    \/ \E i \in TaskIds : InstallRaise(i)
    \/ \E i \in TaskIds : InstallCancelled(i)
    \/ BatchCancel
    \/ GatherCancelled
    \/ GatherReraise
    \/ GatherDone
    \/ ConfigSkip
    \/ ConfigSave
    \/ ConfigSaveRaise
    \/ ReloadReturn
    \/ ReloadRaise
    \/ ReloadCancelled
    \/ PrioritySkip
    \/ PriorityCall
    \/ PriorityPutOk
    \/ PriorityPutFail
    \/ PriorityCancelled
    \/ Respond
    \/ Reimport

Spec == Init /\ [][Next]_vars

(***************************************************************************)
(* The import under the scheduling of the event loop: a task that is ready *)
(* is run, an awaited collaborator call returns or raises, the route       *)
(* answers.  Nothing obliges the caller to cancel the request or the       *)
(* client to send it again.                                                *)
(***************************************************************************)
\* requests of every phase but the long install batches: two documents with
\* and without plugin_configs, one document the schema rejects, one request
\* that does not ask for the priority phase
LiveRequests ==
    {r \in PlanRequests :
        /\ r.apply_configs
        /\ ~r.overwrite_existing_configs
        /\ \/ r.collection = EmptyDoc
           \/ /\ r.collection \notin BrokenDocs
              /\ Len(r.collection.plugins.items) = 2
              /\ Len(r.collection.plugin_configs.items) \in {0, 2}
              /\ \A j \in 1..Len(r.collection.plugin_configs.items) :
                    r.collection.plugin_configs.items[j].cfg.is_dict}
    \cup {r \in PriorityRequests : ~r.apply_priority /\ r.import_mode = "add"}

\* the long install batches of one "a" and then "b"s, into an empty
\* installation
LiveBatchRequests ==
    {r \in BatchRequests :
        /\ r.import_mode = "add"
        /\ r.collection.plugins.items[1].name.s = "a"
        /\ r.collection.plugins.items[2].name.s = "b"}

LiveInit ==
    \/ InitWith(LiveRequests, {<<>>, CleanPool})
    \/ InitWith(LiveBatchRequests, {<<>>})

\* the steps of the event loop, the collaborators and the route once the
\* document has passed validation
Importing ==
    \/ RouteParsed
    \/ ImportBadMode
    \/ ImportBegin
    \/ ConflictAbsent
    \/ ConflictCall
    \/ ConflictReturn
    \/ ConflictRaise
    \/ ConflictCancelled
    \/ UninstallSkip
    \/ UninstallCall
    \/ UninstallReturn
    \/ UninstallRaise
    \/ UninstallCancelled
    \/ InstallSetup
    \/ \E i \in TaskIds : TaskAcquire(i)
    \/ \E i \in TaskIds : TaskWait(i)
    \/ \E i \in TaskIds : TaskNeverRuns(i)
    \/ \E i \in TaskIds : TaskResume(i)
    \/ \E i \in TaskIds : TaskResumeCancelled(i)
    \/ \E i \in TaskIds : TaskUnwind(i)
    \/ \E i \in TaskIds : InstallReturn(i)
    \/ \E i \in TaskIds : InstallRaise(i)
    \/ \E i \in TaskIds : InstallCancelled(i)
    \/ GatherCancelled
    \/ GatherReraise
    \/ GatherDone
    \/ ConfigSkip
    \/ ConfigSave
    \/ ConfigSaveRaise
    \/ ReloadReturn
    \/ ReloadRaise
    \/ ReloadCancelled
    \/ PrioritySkip
    \/ PriorityCall
    \/ PriorityPutOk
    \/ PriorityPutFail
    \/ PriorityCancelled
    \/ Respond

\* every step but the caller's cancellation and the client's repetition
Progress == RouteInvalid \/ Importing

LiveSpec == LiveInit /\ [][Next]_vars /\ WF_vars(Progress)

(***************************************************************************)
(* CollectionRoute.preview_collection and CollectionImporter.preview,      *)
(* followed by the import of the same document with the same import_mode   *)
(* against the same installed plugins.                                     *)
(***************************************************************************)
\* collection.py 114-116: any other import_mode is previewed as "add"
PreviewMode(mode) == IF mode \in {"add", "clean"} THEN mode ELSE "add"

ToInstallEntry(p) ==
    [name |-> p.name, repo |-> p.repo, version |-> p.version, status |-> "not_installed"]
ToSkipEntry(p) == [name |-> p.name, repo |-> p.repo, status |-> "installed"]

\* importer.py 43-46: the tests of preview's uninstall loop
PreviewUninstalls(p, keep) == ~p.reserved /\ p.name \notin keep

\* CollectionImporter.preview (importer.py 17-61)
Preview(ss, c, import_mode, available) ==
    LET installed == StarNames(ss)
        keep == {c.plugins[i].name : i \in 1..Len(c.plugins)}
    IN [metadata |-> MetadataToDict(c.metadata),
        plugins_to_install |->
            MapSeq(SelectSeq(c.plugins, LAMBDA p : p.name \notin installed),
                   ToInstallEntry),
        plugins_to_skip |->
            MapSeq(SelectSeq(c.plugins, LAMBDA p : p.name \in installed), ToSkipEntry),
        plugins_to_uninstall |->
            IF import_mode = "clean"
            THEN MapSeq(SelectSeq(ss, LAMBDA p : PreviewUninstalls(p, keep)),
                        LAMBDA p : p.name)
            ELSE <<>>,
        configs_count |->
            IF c.plugin_configs.is_dict THEN Len(c.plugin_configs.items) ELSE 0,
        has_priority_overrides |-> HasPriorityOverrides(c),
        conflict_detection_available |-> available]

\* documents with a plugin whose repo or whose name is the empty string
EmptyFieldDocs ==
    LET d == RawDoc(<<"a", "b">>, NoConfigs, SomeOverrides)
    IN { [d EXCEPT !.plugins.items[1].repo = JStr("")],
         [d EXCEPT !.plugins.items[2].name = JStr("")] }

EmptyFieldRequests ==
    [collection : EmptyFieldDocs,
     import_mode : {"add", "clean"},
     apply_configs : {TRUE},
     overwrite_existing_configs : {FALSE},
     apply_priority : {TRUE}]

PlanInit ==
    \/ /\ InitAt("preview", LiveRequests \cup EmptyFieldRequests,
                 {<<>>, CleanPool, StarPool})
       /\ NoFilterCall
    \/ /\ InitAt("preview", LiveBatchRequests, {<<>>})
       /\ NoFilterCall

\* _parse_collection raises CollectionValidationError: error response
PreviewInvalid ==
    /\ pc = "preview"
    /\ ~ValidateDict(req.collection)
    /\ response' = ErrorResponse("validation")
    /\ pc' = "responded"
    /\ UNCHANGED << req, envVars, collection, installed_before, conflict_report,
                    uninstall_queue, cur, reportVars, batchVars, config_queue,
                    started, finished, called, traceVars >>

\* the preview is returned; the client then posts the document to
\* /plugin/collection/import
PreviewCall ==
    /\ pc = "preview"
    /\ ValidateDict(req.collection)
    /\ \E available \in BOOLEAN :
          plan' = << Preview(stars, FromDict(req.collection),
                             PreviewMode(req.import_mode), available) >>
    /\ pc' = "route"
    /\ UNCHANGED << req, envVars, collection, installed_before, conflict_report,
                    uninstall_queue, cur, reportVars, batchVars, config_queue,
                    response, started, finished, called, stars0, reload_errors,
                    conflict_outcome, shimVars, reimported, filterVars >>

PlanNext ==
    \/ PreviewInvalid
    \/ PreviewCall
    \/ Importing
    \/ BatchCancel
    \/ Reimport

PlanSpec == PlanInit /\ [][PlanNext]_vars

(***************************************************************************)
(* PriorityCompatibility on its own: the importer at its call of           *)
(* apply_priority_overrides and the exporter at its call of                *)
(* get_priority_overrides, over more registries, stored values and         *)
(* overrides than the import requests above carry.                         *)
(***************************************************************************)
\* the greatest priority of a handler or an override
MaxPriority == 2
Priorities == 0..MaxPriority

\* mappings from some of the names to priorities
Mappings(names) ==
    {m \in SUBSET (names \X Priorities) :
        \A e1, e2 \in m : e1[1] = e2[1] => e1 = e2}

\* overrides of a document: "hx" names no handler of the registry
ShimOverrides == Mappings({"h1", "hx"})

\* registries of the handlers h1 and h2, in dispatch order; a handler whose
\* priority int() does not accept may stand anywhere
ShimRegistries ==
    {SortHandlers(<<Handler(n[1], p1), Handler(n[2], p2)>>) :
        n \in {<<"h1", "h2">>, <<"h2", "h1">>}, p1 \in Priorities, p2 \in Priorities}
    \cup {<<NonNumericHandler(n[1]), Handler(n[2], p)>> :
            n \in {<<"h1", "h2">>, <<"h2", "h1">>}, p \in Priorities}
    \cup {<<Handler(n[1], p), NonNumericHandler(n[2])>> :
            n \in {<<"h1", "h2">>, <<"h2", "h1">>}, p \in Priorities}

\* values stored under "handler_priority_overrides"
ShimStored == {{}, {<<"h2", 1>>}}

RawOverridesOf(m) == [t |-> "object", items |-> {<<e[1], JInt(e[2])>> : e \in m}]

\* import requests of a document without plugins
ShimRequests ==
    [collection : {RawDoc(<<>>, NoConfigs, RawOverridesOf(m)) : m \in ShimOverrides}
                     \cup {RawDoc(<<>>, NoConfigs, [t |-> "absent", items |-> {}])},
     import_mode : {"add"},
     apply_configs : {TRUE},
     overwrite_existing_configs : {FALSE},
     apply_priority : BOOLEAN]

\* the request variable while no import request is in flight
NoRequest ==
    [collection |-> EmptyDoc, import_mode |-> "add", apply_configs |-> TRUE,
     overwrite_existing_configs |-> FALSE, apply_priority |-> TRUE]

\* what the two callers have in common: nothing installed, no plugin in the
\* document, no call of the lifecycle collaborator issued
ShimInitCommon ==
    /\ stars = <<>>
    /\ stars0 = stars
    /\ sp_overrides \in ShimStored
    /\ handlers \in ShimRegistries
    /\ handlers0 = handlers
    /\ installed_before = {}
    /\ conflict_report = "None"
    /\ uninstall_queue = <<>>
    /\ cur = ""
    /\ uninstalled = <<>>
    /\ tasks = <<>>
    /\ waiters = <<>>
    /\ cancel_requested = FALSE
    /\ installed_results = <<>>
    /\ failed_results = <<>>
    /\ skipped_results = <<>>
    /\ config_queue = <<>>
    /\ configs_applied = 0
    /\ priority_applied = FALSE
    /\ response = NoResponse
    /\ called = [k \in NamedKinds |-> [n \in AllNames |-> 0]]
    /\ reload_errors = 0
    /\ sp_get = "none"
    /\ got = {}
    /\ sp_put = "none"
    /\ reimported = FALSE
    /\ plan = NoPlan
    /\ NoFilterCall

\* import_collection has reached importer.py line 161, the conflict
\* capability being absent
ShimInitImport ==
    /\ ShimInitCommon
    /\ req \in ShimRequests
    /\ collection = FromDict(req.collection)
    /\ pc = "config"
    /\ conflict_outcome = "absent"
    /\ sem = SemCapacity
    /\ started = [k \in CallKinds |-> IF k = "conflict" THEN 1 ELSE 0]
    /\ finished = [k \in CallKinds |-> IF k = "conflict" THEN 1 ELSE 0]

\* export has reached exporter.py line 80 with include_priority
ShimInitExport ==
    /\ ShimInitCommon
    /\ req = NoRequest
    /\ collection = FromDict(EmptyDoc)
    /\ pc = "export_priority"
    /\ conflict_outcome = "pending"
    /\ sem = 0
    /\ started = [k \in CallKinds |-> 0]
    /\ finished = [k \in CallKinds |-> 0]

ShimInit == ShimInitImport \/ ShimInitExport

\* compatibility.py 21-29: the handlers with a nonzero priority; a priority
\* int() does not accept counts as 0
FromRegistry(hs) ==
    {<<hs[i].name, hs[i].priority>> :
        i \in {j \in 1..Len(hs) : hs[j].numeric /\ hs[j].priority # 0}}

\* PriorityCompatibility.get_priority_overrides: the stored mapping if the
\* read returned a mapping that is not empty, the registry's otherwise
GetPriorityOverrides(read_ok, stored, hs) ==
    IF read_ok /\ stored # {} THEN stored ELSE FromRegistry(hs)

shimFrame == << req, envVars, collection, installed_before, conflict_report,
                uninstall_queue, cur, reportVars, batchVars, config_queue,
                response, started, finished, called, stars0, reload_errors,
                conflict_outcome, sp_put, handlers0, reimported, plan, filterVars >>

\* sp.global_get returns what is stored
GetOverridesRead ==
    /\ pc = "export_priority"
    /\ sp_get' = "ok"
    /\ got' = GetPriorityOverrides(TRUE, sp_overrides, handlers)
    /\ pc' = "exported"
    /\ UNCHANGED shimFrame

\* sp.global_get raises (or sp is unavailable): logged, registry fallback
GetOverridesReadRaises ==
    /\ pc = "export_priority"
    /\ sp_get' = "raised"
    /\ got' = GetPriorityOverrides(FALSE, sp_overrides, handlers)
    /\ pc' = "exported"
    /\ UNCHANGED shimFrame

ShimNext ==
    \/ PrioritySkip
    \/ PriorityCall
    \/ PriorityPutOk
    \/ PriorityPutFail
    \/ PriorityCancelled
    \/ Respond
    \/ GetOverridesRead
    \/ GetOverridesReadRaises

ShimSpec == ShimInit /\ [][ShimNext]_vars

(***************************************************************************)
(* SensitiveFilter (sensitive_filter.py).  Strings are sequences of         *)
(* characters, so that lower(), strip() and the patterns are computed.     *)
(***************************************************************************)
UpperCase ==
    <<
      "A", "B", "C", "D", "E", "F", "G", "H", "I", "J", "K", "L", "M", "N",
      "O", "P", "Q", "R", "S", "T", "U", "V", "W", "X", "Y", "Z"
    >>
LowerCase ==
    <<
      "a", "b", "c", "d", "e", "f", "g", "h", "i", "j", "k", "l", "m", "n",
      "o", "p", "q", "r", "s", "t", "u", "v", "w", "x", "y", "z"
    >>

\* str.lower()
LowerChar(c) ==
    IF \E i \in 1..Len(UpperCase) : UpperCase[i] = c
    THEN LowerCase[CHOOSE i \in 1..Len(UpperCase) : UpperCase[i] = c]
    ELSE c
Lower(s) == [i \in 1..Len(s) |-> LowerChar(s[i])]

\* the characters str.strip() removes and \s matches
Whitespace == {" ", "\t", "\n", "\r"}

\* str.strip()
Strip(s) ==
    LET solid == {i \in 1..Len(s) : s[i] \notin Whitespace}
    IN IF solid = {} THEN <<>>
       ELSE SubSeq(s, CHOOSE i \in solid : \A j \in solid : i <= j,
                      CHOOSE i \in solid : \A j \in solid : i >= j)

StartsWith(s, prefix) ==
    Len(s) >= Len(prefix) /\ SubSeq(s, 1, Len(prefix)) = prefix
EndsWith(s, suffix) ==
    Len(s) >= Len(suffix) /\ SubSeq(s, Len(s) - Len(suffix) + 1, Len(s)) = suffix
\* kw in s
Contains(s, kw) ==
    \E i \in 0..(Len(s) - Len(kw)) : SubSeq(s, i + 1, i + Len(kw)) = kw

SENSITIVE_KEYWORDS ==
    {
      <<"k", "e", "y">>, <<"s", "e", "c", "r", "e", "t">>,
      <<"t", "o", "k", "e", "n">>,
      <<"p", "a", "s", "s", "w", "o", "r", "d">>,
      <<"c", "r", "e", "d", "e", "n", "t", "i", "a", "l">>,
      <<"a", "p", "i", "_", "k", "e", "y">>,
      <<"a", "c", "c", "e", "s", "s", "_", "t", "o", "k", "e", "n">>,
      <<"p", "r", "i", "v", "a", "t", "e", "_", "k", "e", "y">>,
      <<"a", "u", "t", "h">>, <<"g", "r", "o", "u", "p", "_", "i", "d">>,
      <<"g", "r", "o", "u", "p">>,
      <<"q", "q", "_", "g", "r", "o", "u", "p">>,
      <<"g", "u", "i", "l", "d">>, <<"c", "h", "a", "n", "n", "e", "l">>,
      <<"u", "s", "e", "r", "_", "i", "d">>, <<"u", "s", "e", "r">>,
      <<"q", "q">>, <<"u", "i", "n">>, <<"o", "p", "e", "n", "i", "d">>,
      <<"u", "i", "d">>, <<"e", "n", "d", "p", "o", "i", "n", "t">>,
      <<"b", "a", "s", "e", "_", "u", "r", "l">>,
      <<"a", "p", "i", "_", "b", "a", "s", "e">>, <<"u", "r", "l">>,
      <<"u", "r", "i">>, <<"w", "e", "b", "h", "o", "o", "k">>,
      <<"c", "a", "l", "l", "b", "a", "c", "k">>, <<"h", "o", "s", "t">>,
      <<"d", "o", "m", "a", "i", "n">>
    }

\* SENSITIVE_KEY_PATTERNS: every pattern is ".*" followed by one of these
\* suffixes and "$", an optional group written out as two suffixes
SENSITIVE_KEY_SUFFIXES ==
    {
      <<"_", "k", "e", "y">>, <<"_", "s", "e", "c", "r", "e", "t">>,
      <<"_", "t", "o", "k", "e", "n">>,
      <<"_", "p", "a", "s", "s", "w", "o", "r", "d">>,
      <<"_", "c", "r", "e", "d", "e", "n", "t", "i", "a", "l">>,
      <<"_", "a", "c", "c", "e", "s", "s", "_", "t", "o", "k", "e", "n">>,
      <<"_", "p", "r", "i", "v", "a", "t", "e", "_", "k", "e", "y">>,
      <<"_", "g", "r", "o", "u", "p">>,
      <<"_", "g", "r", "o", "u", "p", "_", "i", "d">>,
      <<"_", "g", "u", "i", "l", "d">>,
      <<"_", "g", "u", "i", "l", "d", "_", "i", "d">>,
      <<"_", "c", "h", "a", "n", "n", "e", "l">>,
      <<"_", "c", "h", "a", "n", "n", "e", "l", "_", "i", "d">>,
      <<"_", "u", "s", "e", "r">>,
      <<"_", "u", "s", "e", "r", "_", "i", "d">>, <<"_", "q", "q">>,
      <<"_", "u", "i", "n">>, <<"_", "o", "p", "e", "n", "i", "d">>,
      <<"_", "e", "n", "d", "p", "o", "i", "n", "t">>,
      <<"_", "b", "a", "s", "e", "_", "u", "r", "l">>,
      <<"_", "a", "p", "i", "_", "b", "a", "s", "e">>,
      <<"_", "u", "r", "l">>, <<"_", "u", "r", "i">>,
      <<"_", "w", "e", "b", "h", "o", "o", "k">>,
      <<"_", "w", "e", "b", "h", "o", "o", "k", "_", "u", "r", "l">>,
      <<"_", "c", "a", "l", "l", "b", "a", "c", "k">>,
      <<"_", "c", "a", "l", "l", "b", "a", "c", "k", "_", "u", "r", "l">>,
      <<"_", "h", "o", "s", "t">>, <<"_", "d", "o", "m", "a", "i", "n">>
    }

\* pattern.fullmatch(key) with re.IGNORECASE: "." matches no newline
MatchesKeyPattern(key) ==
    /\ \A i \in 1..Len(key) : key[i] # "\n"
    /\ \E suffix \in SENSITIVE_KEY_SUFFIXES : EndsWith(Lower(key), suffix)

\* SensitiveFilter.is_sensitive_key
IsSensitiveKey(key) ==
    \/ \E kw \in SENSITIVE_KEYWORDS : Contains(Lower(key), kw)
    \/ MatchesKeyPattern(key)

\* "^sk-.*"
MatchesSk(s) == StartsWith(Lower(s), <<"s", "k", "-">>)

\* "^bearer\s+.+": whitespace after "bearer", then a character that is no
\* newline
MatchesBearer(s) ==
    LET bearer == <<"b", "e", "a", "r", "e", "r">>
    IN /\ StartsWith(Lower(s), bearer)
       /\ \E k \in 1..(Len(s) - Len(bearer) - 1) :
             /\ \A j \in 1..k : s[Len(bearer) + j] \in Whitespace
             /\ s[Len(bearer) + k + 1] # "\n"

\* "^https?://.+" and "^wss?://.+"
URL_PREFIXES ==
    { <<"h", "t", "t", "p", ":", "/", "/">>,
      <<"h", "t", "t", "p", "s", ":", "/", "/">>,
      <<"w", "s", ":", "/", "/">>,
      <<"w", "s", "s", ":", "/", "/">> }
MatchesUrl(s) ==
    \E prefix \in URL_PREFIXES :
        /\ StartsWith(Lower(s), prefix)
        /\ Len(s) > Len(prefix)
        /\ s[Len(prefix) + 1] # "\n"

\* SensitiveFilter.is_sensitive_value
IsSensitiveValue(value) ==
    /\ value.t = "str"
    /\ LET s == Strip(value.s)
       IN MatchesSk(s) \/ MatchesBearer(s) \/ MatchesUrl(s)

\* a filter that looks at the keys only
DropEntryByKey(k, v) == IsSensitiveKey(k)

\* sensitive_filter.py 101-104: the two "continue" tests of a mapping entry
DropEntry(k, v) == IsSensitiveKey(k) \/ IsSensitiveValue(v)

\* a depth test that stops one level early
BeyondDepthEarly(depth, limit) == depth >= limit

\* sensitive_filter.py 94
BeyondDepth(depth, limit) == depth > limit

\* SensitiveFilter.filter_data
RECURSIVE FilterData(_, _, _)
FilterData(d, depth, limit) ==
    IF BeyondDepth(depth, limit) THEN d
    ELSE IF d.t = "dict"
    THEN LET kept == SelectSeq(d.kids, LAMBDA e : ~DropEntry(e.k, e.v))
         IN VDict([i \in 1..Len(kept) |->
                      Entry(kept[i].k, FilterData(kept[i].v, depth + 1, limit))])
    ELSE IF d.t = "list"
    THEN VList([i \in 1..Len(d.kids) |->
                   Element(FilterData(d.kids[i].v, depth + 1, limit))])
    ELSE IF IsSensitiveValue(d) THEN VNone
    ELSE d

(***************************************************************************)
(* The inputs filter_data is applied to.                                   *)
(***************************************************************************)
\* how often the sample values are wrapped into a mapping or a list
MaxNest == 2

\* filter_data's default of max_depth
DEFAULT_MAX_DEPTH == 20

K_api_key == <<"a", "p", "i", "_", "k", "e", "y">>
K_note == <<"n", "o", "t", "e">>
K_Monkey == <<"M", "o", "n", "k", "e", "y">>
K_id == <<"i", "d">>
K_opts == <<"o", "p", "t", "s">>
S_sk == <<"s", "k", "-", "a", "b", "c", "1", "2", "3">>
S_hi == <<"h", "i">>

SampleKeys == {K_api_key, K_note, K_Monkey, K_id}

SampleStrings ==
    { S_sk, S_hi,
      <<" ", "S", "K", "-", "a">>,
      <<"B", "e", "a", "r", "e", "r", " ", "x">>,
      <<"b", "e", "a", "r", "e", "r">>,
      <<"h", "t", "t", "p", ":", "/", "/", "a">>,
      <<"h", "t", "t", "p", "s", ":", "/", "/">>,
      <<"w", "s", ":", "/", "/", "h">> }

Scalars == {VStr(x) : x \in SampleStrings} \cup {VInt(1), VNone}

\* {"api_key": "hi", "note": "sk-abc123", "id": "hi"}
SampleDict ==
    VDict(<<Entry(K_api_key, VStr(S_hi)), Entry(K_note, VStr(S_sk)),
            Entry(K_id, VStr(S_hi))>>)

FlatInputs ==
    Scalars
    \cup {VDict(<<Entry(k, v)>>) : k \in SampleKeys, v \in {VStr(S_sk), VStr(S_hi), VInt(1)}}
    \cup {SampleDict, VDict(<<>>), VList(<<>>)}

\* a value inside a mapping, inside a list, and under a sensitive key
Wraps(v) ==
    { VDict(<<Entry(K_opts, v)>>),
      VList(<<Element(v), Element(VStr(S_sk))>>),
      VDict(<<Entry(K_api_key, v), Entry(K_note, v)>>) }

RECURSIVE NestedInputs(_)
NestedInputs(n) ==
    IF n = 0 THEN FlatInputs
    ELSE LET inner == NestedInputs(n - 1)
         IN inner \cup UNION {Wraps(v) : v \in inner}

\* v at the end of a chain of n mappings
RECURSIVE Chain(_, _)
Chain(v, n) == IF n = 0 THEN v ELSE VDict(<<Entry(K_opts, Chain(v, n - 1))>>)

\* values nested about as deep as the default of max_depth, some with a
\* second branch at the top
DeepInputs ==
    LET chains == {Chain(v, n) : v \in {SampleDict, VList(<<Element(VStr(S_sk))>>)},
                                 n \in (DEFAULT_MAX_DEPTH - 2)..(DEFAULT_MAX_DEPTH + 5)}
    IN chains \cup {VDict(<<Entry(K_api_key, VStr(S_hi)), Entry(K_note, VStr(S_hi)),
                            Entry(K_opts, c)>>) : c \in chains}

FilterInit ==
    /\ InitAt("filter", {NoRequest}, {<<>>})
    /\ filtered = VNone
    /\ \/ data \in NestedInputs(MaxNest) /\ max_depth \in 0..(MaxNest + 1)
       \/ data \in DeepInputs /\ max_depth = DEFAULT_MAX_DEPTH

\* SensitiveFilter.filter_data(data, max_depth=max_depth)
FilterCall ==
    /\ pc = "filter"
    /\ filtered' = FilterData(data, 0, max_depth)
    /\ pc' = "filtered"
    /\ UNCHANGED << req, envVars, collection, installed_before, conflict_report,
                    uninstall_queue, cur, reportVars, batchVars, config_queue,
                    response, started, finished, called, stars0, reload_errors,
                    conflict_outcome, shimVars, reimported, plan, data, max_depth >>

FilterNext == FilterCall

FilterSpec == FilterInit /\ [][FilterNext]_vars

(***************************************************************************)
(* CollectionExporter.export (exporter.py 30-95), called by                *)
(* CollectionRoute.export_collection with the options of the request.      *)
(***************************************************************************)
\* an installed plugin as the exporter reads it: name, repo, version and
\* display_name are a string or None (JNull); config is absent, a mapping,
\* or an object dict() does not accept
ExportStar(name, repo, version, display_name, config) ==
    [name |-> name, reserved |-> FALSE, repo |-> repo, version |-> version,
     display_name |-> display_name, config |-> config]

NoStarConfig == [kind |-> "none", value |-> VDict(<<>>)]
StarConfig(d) == [kind |-> "dict", value |-> d]
UnreadableConfig == [kind |-> "unreadable", value |-> VDict(<<>>)]

\* bool(v) of a string or None
Truthy(v) == v.t = "string" /\ v.s # ""

\* an exporter without the test of the repo
ExportableWithoutRepo(p, exclude) ==
    /\ ~(p.name.t = "string" /\ p.name.s \in exclude)
    /\ Truthy(p.name)

\* exporter.py 37-43: the three "continue" tests
Exportable(p, exclude) ==
    /\ ~(p.name.t = "string" /\ p.name.s \in exclude)
    /\ Truthy(p.repo)
    /\ Truthy(p.name)

\* exporter.py 45-52
ExportedPlugin(p) ==
    [name |-> p.name.s, repo |-> p.repo.s,
     version |-> IF Truthy(p.version) THEN p.version.s ELSE "",
     display_name |-> p.display_name]

\* plugin_configs[name] = cfg on a mapping kept in insertion order
DictSet(items, name, cfg) ==
    IF \E j \in 1..Len(items) : items[j].name = name
    THEN [j \in 1..Len(items) |->
             IF items[j].name = name THEN [name |-> name, cfg |-> cfg] ELSE items[j]]
    ELSE Append(items, [name |-> name, cfg |-> cfg])

\* exporter.py 54-66: the filtered configuration of an emitted plugin
ExportedConfigs(items, p, include_configs) ==
    IF include_configs /\ p.config.kind # "none"
    THEN LET cfg_dict == IF p.config.kind = "dict" THEN p.config.value ELSE VDict(<<>>)
         IN DictSet(items, p.name.s, FilterData(cfg_dict, 0, DEFAULT_MAX_DEPTH))
    ELSE items

\* the loop of exporter.py 36-66 over get_all_stars()
RECURSIVE Collect(_, _, _, _)
Collect(ss, exclude, include_configs, acc) ==
    IF ss = <<>> THEN acc
    ELSE LET p == Head(ss)
         IN IF Exportable(p, exclude)
            THEN Collect(Tail(ss), exclude, include_configs,
                         [plugins |-> Append(acc.plugins, ExportedPlugin(p)),
                          configs |-> ExportedConfigs(acc.configs, p, include_configs)])
            ELSE Collect(Tail(ss), exclude, include_configs, acc)

\* datetime.now(timezone.utc).isoformat() and astrbot's VERSION
CreatedAt == "t"
AstrbotVersion == "v"

\* exporter.py 31-77 and 85-91, handler_priority_overrides still None
Collected(ss, options) ==
    LET acc == Collect(ss, options.exclude_plugins, options.include_configs,
                       [plugins |-> <<>>, configs |-> <<>>])
    IN [schema_version |-> SCHEMA_VERSION,
        metadata |-> [name |-> options.name, description |-> options.description,
                      author |-> options.author, version |-> options.version,
                      created_at |-> CreatedAt, astrbot_version |-> AstrbotVersion,
                      plugin_count |-> Len(acc.plugins)],
        plugins |-> acc.plugins,
        plugin_configs |-> [is_dict |-> options.include_configs, items |-> acc.configs],
        handler_priority_overrides |-> [is_dict |-> FALSE, items |-> {}]]

\* a collection name longer than the schema's maxLength
LongName ==
    "nnnnnnnnnnnnnnnnnnnnnnnnnnnnnnnnnnnnnnnnnnnnnnnnnnnnnnnnnnnnnnnnnnnnnnnnnnnnnnnnnnnnnnnnnnnnnnnnnnnnn"

\* ExportOptions as the route builds them; exclude_plugins None is the
\* empty set
ExportRequests ==
    [name : {"c", LongName},
     description : {""},
     author : {""},
     version : {"1.0.0"},
     include_configs : BOOLEAN,
     include_priority : BOOLEAN,
     exclude_plugins : {{}, {"a"}}]

\* installed plugins: exportable ones with and without configuration,
\* version and display_name, one without repo, one whose repo is None, one
\* without name
ExportPool ==
    << ExportStar(JStr("a"), JStr("ra"), JStr("1"), JStr("A"), StarConfig(SampleDict)),
       ExportStar(JStr("d"), JStr(""), JStr("1"), JNull, StarConfig(SampleDict)),
       ExportStar(JStr("b"), JStr("rb"), JNull, JNull, NoStarConfig),
       ExportStar(JStr(""), JStr("rx"), JStr("1"), JNull, StarConfig(SampleDict)),
       ExportStar(JStr("e"), JNull, JStr("1"), JStr("E"), UnreadableConfig),
       ExportStar(JStr("f"), JStr("rf"), JStr(""), JStr(""), UnreadableConfig) >>

ExportInit ==
    /\ InitAt("export", ExportRequests, SubSeqs(ExportPool))
    /\ NoFilterCall

exportFrame == << req, envVars, installed_before, conflict_report, uninstall_queue,
                 cur, reportVars, batchVars, config_queue, started, finished, called,
                 traceVars >>

\* exporter.py 31-80: the plugins and configurations are collected; with
\* include_priority the exporter awaits get_priority_overrides
ExportBegin ==
    /\ pc = "export"
    /\ collection' = Collected(stars, req)
    /\ pc' = IF req.include_priority THEN "export_priority" ELSE "exported"
    /\ UNCHANGED << exportFrame, response >>

\* exporter.py 85-95: the document is assembled, serialized and validated;
\* the route answers with the payload, or with the validation error
ExportReturn ==
    /\ pc = "exported"
    /\ LET c == [collection EXCEPT !.handler_priority_overrides =
                    IF req.include_priority THEN [is_dict |-> TRUE, items |-> got]
                    ELSE @]
           payload == ToDict(c)
       IN /\ collection' = c
          /\ response' = IF ValidateDict(payload) THEN OkResponse(payload)
                         ELSE ErrorResponse("validation")
    /\ pc' = "responded"
    /\ UNCHANGED exportFrame

ExportNext ==
    \/ ExportBegin
    \/ GetOverridesRead
    \/ GetOverridesReadRaises
    \/ ExportReturn

ExportSpec == ExportInit /\ [][ExportNext]_vars

(***************************************************************************)
(* Properties.                                                             *)
(***************************************************************************)
CountNamed(entries, n) == Cardinality({i \in 1..Len(entries) : entries[i].name = n})
TasksWith(n, res) == Cardinality({i \in TaskIds : tasks[i].name = n /\ tasks[i].res = res})

\* the names of the request's document, read off the request body
DocPluginNames ==
    [i \in 1..Len(req.collection.plugins.items) |->
        req.collection.plugins.items[i].name.s]
DocNameSet == {DocPluginNames[i] : i \in 1..Len(DocPluginNames)}
InstalledAtStart == StarNames(stars0)

\* how many plugins named n the install phase has to install
NeedsInstall(n) ==
    Cardinality({i \in 1..Len(DocPluginNames) :
        /\ DocPluginNames[i] = n
        /\ ~(req.import_mode = "add" /\ n \in InstalledAtStart)})

ReportReturned == pc = "responded" /\ response.status = "ok"
\* the install batch has completed and no cancellation was raised
PastInstall == pc \in {"config", "reload_wait", "priority_wait", "report"} \/ ReportReturned
\* the uninstall phase has completed
PastUninstall == pc = "gather" \/ PastInstall
NothingIssued == \A k \in CallKinds : started[k] = 0
StateUntouched == stars = stars0 /\ sp_overrides = {} /\ handlers = Handlers0

Outstanding == Cardinality({i \in TaskIds : tasks[i].st = "running"})

\* C1: at most 3 install_plugin calls are outstanding (started and not yet
\* returned or raised) at any time of the install phase.
C1_AtMostThreeOutstanding ==
    /\ started["install"] - finished["install"] <= 3
    /\ Outstanding = started["install"] - finished["install"]

\* C1 witness: three installs are outstanding while a fourth task waits.
C1_Witness ==
    /\ Outstanding = 3
    /\ \E i \in TaskIds : tasks[i].st = "waiting"

\* C2: an ordinary install error is a per-item failure.  Once the batch has
\* completed without cancellation, install_plugin was called for every
\* needs-install plugin and ran to completion, and each of them is in exactly
\* one of 'installed' (it returned) or 'failed' (it raised; name and message).
C2_ErrorsIsolated ==
    PastInstall =>
        /\ \A i \in TaskIds : tasks[i].st = "done" /\ tasks[i].res \in {"ok", "error"}
        /\ \A n \in AllNames :
            /\ called["install"][n] = NeedsInstall(n)
            /\ CountNamed(installed_results, n) = TasksWith(n, "ok")
            /\ CountNamed(failed_results, n) = TasksWith(n, "error")
            /\ CountNamed(installed_results, n) + CountNamed(failed_results, n)
                 = NeedsInstall(n)
        /\ \A j \in 1..Len(failed_results) :
              failed_results[j].status = "error" /\ failed_results[j].message = ErrMsg
        /\ \A j \in 1..Len(installed_results) : installed_results[j].status = "ok"

\* C2 witness: a report with an install that raised and installs that returned.
C2_Witness ==
    /\ ReportReturned
    /\ Len(failed_results) >= 1
    /\ Len(installed_results) >= 2

BatchCancellationRaised ==
    cancel_requested \/ \E i \in TaskIds : tasks[i].res = "cancelled"

\* C3: a cancellation raised during the install batch (of the batch or of a
\* single install call) leaves import_collection as a cancellation: it is no
\* entry of 'failed', no report is returned, and neither the config-merge nor
\* the priority-apply phase runs.
C3_CancellationPropagates ==
    BatchCancellationRaised =>
        /\ pc \in {"gather", "cancelled"}
        /\ response = NoResponse
        /\ started["save"] = 0 /\ started["reload"] = 0 /\ started["priority"] = 0
        /\ priority_applied = FALSE /\ configs_applied = 0
        /\ \A n \in AllNames : CountNamed(failed_results, n) <= TasksWith(n, "error")
        /\ \A j \in 1..Len(failed_results) : failed_results[j].name \in DocNameSet

\* C3 witness: one install call was cancelled, another raised an ordinary
\* error, and the cancellation has left import_collection.
C3_Witness ==
    /\ pc = "cancelled"
    /\ ~cancel_requested
    /\ \E i, j \in TaskIds : tasks[i].res = "error" /\ tasks[j].res = "cancelled" /\ i < j

\* C4 (as claimed): once an install call has been cancelled, no further
\* install_plugin call of the batch is started.
C4_NoInstallAfterCancellation ==
    [][(\E i \in TaskIds : tasks[i].res = "cancelled")
          => started'["install"] = started["install"]]_vars

Rank(kind) ==
    CASE kind = "conflict" -> 1
      [] kind = "uninstall" -> 2
      [] kind = "install" -> 3
      [] kind \in {"save", "reload"} -> 4
      [] kind = "priority" -> 5

\* C5: the phases are strictly ordered.  When a call of a phase is issued,
\* the conflict check is over, every call of every earlier phase has
\* returned or raised, and no call of a later phase has been issued yet.
C5_PhasesOrdered ==
    [][\A L \in CallKinds : started'[L] > started[L] =>
          /\ (L # "conflict" => finished["conflict"] = 1)
          /\ \A K \in CallKinds : Rank(K) < Rank(L) => finished[K] = started[K]
          /\ \A K \in CallKinds : Rank(K) > Rank(L) => started[K] = 0]_vars

\* C5 witness: a run that has issued calls of every phase.
C5_Witness ==
    /\ ReportReturned
    /\ \A k \in CallKinds : started[k] > 0

\* C6: in clean mode uninstall_plugin is called exactly for the installed
\* plugins that are not reserved, have a name and are not named in the
\* document, once each; a reserved plugin and a plugin named in the document
\* are never passed to uninstall_plugin, in any mode.
C6_UninstallSet ==
    LET expected == {stars0[i].name : i \in {j \in 1..Len(stars0) :
                        /\ ~stars0[j].reserved
                        /\ stars0[j].name # ""
                        /\ stars0[j].name \notin DocNameSet}}
    IN /\ \A n \in AllNames :
            /\ called["uninstall"][n] <= 1
            /\ called["uninstall"][n] = 1 => (n \in expected /\ req.import_mode = "clean")
       /\ \A i \in 1..Len(stars0) :
            (stars0[i].reserved \/ stars0[i].name \in DocNameSet)
                => called["uninstall"][stars0[i].name] = 0
       /\ (req.import_mode = "clean" /\ PastUninstall)
            => \A n \in expected : called["uninstall"][n] = 1

\* C6 witness: a clean import over a reserved, a nameless and an ordinary
\* plugin has uninstalled the ordinary one.
C6_Witness ==
    /\ req.import_mode = "clean"
    /\ PastUninstall
    /\ stars0 = StarPool
    /\ called["uninstall"]["a"] = 1
    /\ DocNameSet = {"b"}

\* C7: an add-mode import never calls uninstall_plugin, never calls
\* install_plugin for a document plugin that was installed when it started,
\* lists each such plugin in 'skipped' with reason 'already_installed', and
\* reports an empty 'uninstalled'.
C7_AddModeSkips ==
    req.import_mode = "add" =>
        /\ started["uninstall"] = 0
        /\ uninstalled = <<>>
        /\ \A n \in InstalledAtStart : called["install"][n] = 0
        /\ PastUninstall =>
              /\ \A n \in InstalledAtStart :
                    CountNamed(skipped_results, n) = CountNamed(MapSeq(DocPluginNames,
                                                        LAMBDA x : [name |-> x]), n)
              /\ \A j \in 1..Len(skipped_results) :
                    /\ skipped_results[j].reason = "already_installed"
                    /\ skipped_results[j].name \in InstalledAtStart

\* C7 witness: an add-mode report that skipped one plugin and installed another.
C7_Witness ==
    /\ req.import_mode = "add"
    /\ ReportReturned
    /\ Len(skipped_results) >= 1
    /\ Len(installed_results) >= 1

\* C8: with import_mode add and overwrite_existing_configs false, neither
\* save_config nor reload is called for a plugin installed before the run,
\* and its configuration stays what it was.
C8_ExistingConfigUntouched ==
    (req.import_mode = "add" /\ ~req.overwrite_existing_configs) =>
        \A i \in 1..Len(stars0) :
            /\ called["save"][stars0[i].name] = 0
            /\ called["reload"][stars0[i].name] = 0
            /\ ConfigOf(stars, stars0[i].name) = stars0[i].config

\* C8 witness: the document carries a config for the installed plugin "a";
\* the import merged another plugin's config and left "a" alone.
C8_Witness ==
    /\ req.import_mode = "add"
    /\ ~req.overwrite_existing_configs
    /\ ReportReturned
    /\ configs_applied >= 1
    /\ "a" \in InstalledAtStart
    /\ \E j \in 1..Len(req.collection.plugin_configs.items) :
          /\ req.collection.plugin_configs.items[j].name = "a"
          /\ req.collection.plugin_configs.items[j].cfg.is_dict

\* C9: an import_mode other than 'add' or 'clean' is rejected before any
\* phase runs: no collaborator call is issued and nothing changes.
C9_BadModeRejected ==
    req.import_mode \notin {"add", "clean"} =>
        /\ NothingIssued
        /\ StateUntouched
        /\ pc \in {"route", "import", "responded"}
        /\ pc = "responded" => response.status = "error"

\* C9 witness: a valid document with plugins, rejected for its import_mode.
C9_Witness ==
    /\ req.import_mode = "merge"
    /\ pc = "responded"
    /\ Len(collection.plugins) >= 1
    /\ response = ErrorResponse("import_mode must be 'add' or 'clean'")

\* C10: a document that fails schema validation is never partially applied:
\* validation precedes the importer, and the request ends in an error with
\* no collaborator call issued.
C10_InvalidNeverApplied ==
    req.collection \in BrokenDocs =>
        /\ NothingIssued
        /\ StateUntouched
        /\ pc \in {"route", "responded"}
        /\ pc = "responded" => response = ErrorResponse("validation")

\* C10 witness: a document with an unsupported schema_version and a valid
\* import_mode got the validation error.
C10_Witness ==
    /\ req.collection.schema_version = JStr("2.0")
    /\ req.import_mode = "clean"
    /\ response = ErrorResponse("validation")

\* the plugins the clean-mode uninstall phase has to attempt
UninstallCandidates ==
    {stars0[j].name : j \in {k \in 1..Len(stars0) :
        /\ ~stars0[k].reserved
        /\ stars0[k].name # ""
        /\ stars0[k].name \notin DocNameSet}}

\* C11: in clean mode a failed uninstall_plugin call does not block the later
\* ones.  Once the uninstall phase is over, every candidate was attempted
\* once and 'uninstalled' has exactly one entry per candidate: 'ok' if the
\* call returned (the plugin is gone), 'error' with the message if it raised
\* (the plugin is still installed); the install tasks are set up afterwards.
C11_UninstallFailuresIsolated ==
    (req.import_mode = "clean" /\ PastUninstall) =>
        /\ Len(uninstalled) = Cardinality(UninstallCandidates)
        /\ \A n \in UninstallCandidates :
              /\ called["uninstall"][n] = 1
              /\ CountNamed(uninstalled, n) = 1
        /\ \A j \in 1..Len(uninstalled) :
              \/ /\ uninstalled[j].status = "ok"
                 /\ uninstalled[j].name \notin StarNames(stars)
              \/ /\ uninstalled[j].status = "error"
                 /\ uninstalled[j].message = ErrMsg
                 /\ uninstalled[j].name \in StarNames(stars)
        /\ Len(tasks) = Len(DocPluginNames)

\* C11 witness: the first uninstall raised, the second returned, and an
\* install of the document's plugin was issued afterwards.
C11_Witness ==
    /\ req.import_mode = "clean"
    /\ Len(uninstalled) = 2
    /\ uninstalled[1].status = "error"
    /\ uninstalled[2].status = "ok"
    /\ started["install"] >= 1

\* the config-merge phase is over and no cancellation was raised
PastConfig == pc \in {"priority_wait", "report"} \/ ReportReturned

\* how many (name, config) pairs of the document the merge phase has to save
\* for the plugin n
ExpectedSaves(n) ==
    LET items == req.collection.plugin_configs.items
    IN Cardinality({j \in 1..Len(items) :
          /\ req.apply_configs
          /\ items[j].name = n
          /\ items[j].cfg.is_dict
          /\ HasLiveConfig(stars, n)
          /\ ~(/\ req.import_mode = "add"
               /\ n \in InstalledAtStart
               /\ ~req.overwrite_existing_configs)})

\* C12: a save_config or reload failure of the config-merge phase is not
\* propagated and does not end the phase.  A request that got as far as a
\* save_config call never ends in an error response; once the phase is over,
\* save_config was called for every pair of the document that is to be
\* merged, whatever failed before it; and a returned report was preceded by
\* the priority-apply call the request asks for.
C12_ConfigFailuresIsolated ==
    /\ (pc = "responded" /\ started["save"] > 0) => response.status = "ok"
    /\ PastConfig => \A n \in AllNames : called["save"][n] = ExpectedSaves(n)
    /\ (/\ ReportReturned
        /\ req.apply_priority
        /\ req.collection.handler_priority_overrides.t = "object")
          => started["priority"] = 1

\* C12 witness: a report after a save_config that raised and a reload that
\* raised, with both pairs of the document processed and the priority call
\* issued.
C12_Witness ==
    /\ ReportReturned
    /\ reload_errors >= 1
    /\ finished["save"] > configs_applied
    /\ called["save"]["a"] = 1
    /\ called["save"]["b"] = 1
    /\ started["priority"] = 1

\* C13: the conflict check never aborts the import.  Whether the capability
\* is absent, raises or returns a report, the importer goes on to the
\* uninstall phase and the request never ends in an error response; the
\* returned report has the key 'conflicts' exactly when the capability
\* returned a report.
C13_ConflictNeverAborts ==
    /\ conflict_outcome # "pending" =>
          /\ pc \notin {"route", "import", "conflict", "conflict_wait"}
          /\ pc = "responded" => response.status = "ok"
    /\ ReportReturned =>
          /\ conflict_outcome \in {"absent", "raised", "returned"}
          /\ response.data[1].conflicts # {} <=> conflict_outcome = "returned"

\* C13 witness: the capability raised, and a clean import still uninstalled
\* and installed and returned a report without 'conflicts'.
C13_Witness ==
    /\ ReportReturned
    /\ conflict_outcome = "raised"
    /\ response.data[1].conflicts = {}
    /\ Len(uninstalled) >= 1
    /\ Len(installed_results) >= 1

\* C14 (as claimed): the priority-apply phase runs only if apply_priority is
\* true and preview's has_priority_overrides holds for the document.
\* Otherwise apply_priority_overrides is not called, the store entry and the
\* handler registry stay as they were and priority_applied is false; and a
\* report of a request that asks for the phase carries the shim's result.
C14_PriorityOnlyIfPresent ==
    /\ (pc # "route" /\ (~req.apply_priority \/ ~HasPriorityOverrides(collection)))
          => /\ started["priority"] = 0
             /\ sp_overrides = {}
             /\ handlers = Handlers0
             /\ priority_applied = FALSE
    /\ (ReportReturned /\ req.apply_priority /\ HasPriorityOverrides(collection))
          => /\ started["priority"] = 1
             /\ response.data[1].priority_applied = priority_applied

\* after a failed store write: the registry holds the handlers it held, every
\* handler the overrides name has the override's priority, every other
\* handler is as it was, and the result tells whether the sort succeeded
FallbackMutated ==
    LET overrides == collection.handler_priority_overrides.items
    IN /\ Len(handlers) = Len(handlers0)
       /\ \A j \in 1..Len(handlers0) : \E i \in 1..Len(handlers) :
             /\ handlers[i].name = handlers0[j].name
             /\ IF handlers0[j].name \in Keys(overrides)
                THEN /\ handlers[i].numeric
                     /\ <<handlers[i].name, handlers[i].priority>> \in overrides
                ELSE handlers[i] = handlers0[j]
       /\ priority_applied = \A i \in 1..Len(handlers) : handlers[i].numeric

\* C15 (as claimed): after a failed store write the named handlers are
\* mutated, the registry is re-sorted, the result is true if the sort
\* succeeded, and then the earlier of two adjacent handlers has the strictly
\* greater priority.
C15_StrictlyDescending ==
    sp_put = "raised" =>
        /\ FallbackMutated
        /\ priority_applied =>
              \A i \in 1..(Len(handlers) - 1) :
                  handlers[i].priority > handlers[i + 1].priority

\* C15 (amended): as above, but the order is descending with ties allowed:
\* the earlier of two adjacent handlers has the greater or an equal priority.
C15_FallbackSortsDescending ==
    sp_put = "raised" =>
        /\ FallbackMutated
        /\ priority_applied =>
              \A i \in 1..(Len(handlers) - 1) :
                  handlers[i].priority >= handlers[i + 1].priority

\* C15 witness: the write failed, the overrides named h1 and a handler the
\* registry does not have, and the re-sort moved h1 in front of h2.
C15_Witness ==
    /\ sp_put = "raised"
    /\ priority_applied
    /\ "hx" \in Keys(collection.handler_priority_overrides.items)
    /\ handlers0[1].name = "h2"
    /\ handlers[1].name = "h1"
    /\ handlers[1].priority > handlers[2].priority

\* C16 (as claimed): get_priority_overrides returns the stored mapping
\* whenever the read succeeds, an empty one included, and the mapping derived
\* from the registry only if the read fails.
C16_StoreReadPreferred ==
    /\ sp_get = "ok" => got = sp_overrides
    /\ sp_get = "raised" => got = FromRegistry(handlers)

\* C17 (as claimed): the repetition of an import in which every install and
\* uninstall succeeded issues no install_plugin and no uninstall_plugin call
\* and leaves the set of installed plugins as the first import left it, in
\* both import modes.
C17_ReimportIdempotent ==
    reimported =>
        /\ started["install"] = 0
        /\ started["uninstall"] = 0
        /\ StarNames(stars) = StarNames(stars0)

\* C18: a merge passes to save_config the plugin's current configuration
\* overlaid by the document's config at the top level only.  In the
\* configuration a returned save_config has persisted, every top-level key of
\* the document's config has the document's value (a nested mapping is
\* replaced as a whole), every other key of the current configuration has
\* its current value, and there is no further key; and reload is called for
\* a plugin only after its save_config has returned.
C18_ShallowMerge ==
    [][/\ configs_applied' > configs_applied =>
            LET item == Head(config_queue)
                doc_cfg == item.cfg.map
                current_cfg == ConfigOf(stars, item.name).map
                saved == ConfigOf(stars', item.name).map
            IN /\ Keys(saved) = Keys(current_cfg) \cup Keys(doc_cfg)
               /\ \A k \in Keys(doc_cfg) : Get(saved, k) = Get(doc_cfg, k)
               /\ \A k \in Keys(current_cfg) \ Keys(doc_cfg) :
                     Get(saved, k) = Get(current_cfg, k)
               /\ \A e1, e2 \in saved : e1[1] = e2[1] => e1 = e2
       /\ started'["reload"] > started["reload"] =>
            /\ configs_applied' = configs_applied + 1
            /\ finished'["save"] = started'["save"]
            /\ called'["reload"][cur'] = called["reload"][cur'] + 1
            /\ called'["save"][cur'] = called["save"][cur'] + 1]_vars

\* C18 witness: the document's nested value of y has replaced the one plugin
\* a had, x has kept its value and z is new, and a is being reloaded.
C18_Witness ==
    /\ pc = "reload_wait"
    /\ cur = "a"
    /\ ConfigOf(stars, "a").map =
          {<<"x", Leaf(1)>>, <<"y", Nested({<<"p", 2>>})>>, <<"z", Leaf(2)>>}

\* how deep v is nested: 0 for a scalar, one more than its deepest element
\* for a mapping or a list
RECURSIVE NestDepth(_)
NestDepth(v) ==
    IF v.t \notin {"dict", "list"} THEN 0
    ELSE LET depths == {NestDepth(v.kids[i].v) : i \in 1..Len(v.kids)}
         IN IF depths = {} THEN 1
            ELSE 1 + CHOOSE d \in depths : \A e \in depths : d >= e

\* no mapping inside v, at any level, has an entry with a sensitive key or a
\* sensitive string as its value
RECURSIVE NoSensitiveEntry(_)
NoSensitiveEntry(v) ==
    \A i \in 1..Len(v.kids) :
        /\ v.t = "dict" =>
              /\ ~IsSensitiveKey(v.kids[i].k)
              /\ ~IsSensitiveValue(v.kids[i].v)
        /\ NoSensitiveEntry(v.kids[i].v)

\* the entries of a mapping that are sensitive neither by key nor by value
HarmlessEntries(v) ==
    SelectSeq(v.kids, LAMBDA e : ~IsSensitiveKey(e.k) /\ ~IsSensitiveValue(e.v))

\* out has, at every level down to the depth limit, exactly the harmless
\* entries of the mappings of in under their keys, and the elements of its
\* lists
RECURSIVE EntriesKept(_, _, _, _)
EntriesKept(in, out, depth, limit) ==
    IF depth > limit \/ in.t \notin {"dict", "list"} THEN TRUE
    ELSE LET expected == IF in.t = "dict" THEN HarmlessEntries(in) ELSE in.kids
         IN /\ out.t = in.t
            /\ Len(out.kids) = Len(expected)
            /\ \A i \in 1..Len(expected) :
                  /\ out.kids[i].k = expected[i].k
                  /\ EntriesKept(expected[i].v, out.kids[i].v, depth + 1, limit)

\* C19: for an input nested no deeper than max_depth, the result of
\* filter_data has no mapping entry with a sensitive key or a sensitive
\* string value at any level, inside lists included, and has every other
\* entry of the input under its key.
C19_SensitiveEntriesDropped ==
    (pc = "filtered" /\ NestDepth(data) <= max_depth) =>
        /\ NoSensitiveEntry(filtered)
        /\ EntriesKept(data, filtered, 0, max_depth)

\* C19 witness: a mapping holding a list holding {"api_key": "hi",
\* "note": "sk-abc123", "id": "hi"} came back with "id" alone in it.
C19_Witness ==
    /\ pc = "filtered"
    /\ NestDepth(data) <= max_depth
    /\ data = VDict(<<Entry(K_opts,
                            VList(<<Element(SampleDict), Element(VStr(S_sk))>>))>>)
    /\ filtered.kids[1].v.kids[1].v = VDict(<<Entry(K_id, VStr(S_hi))>>)

\* out is in filtered down to the depth limit and in itself below it
RECURSIVE FilteredToDepth(_, _, _, _)
FilteredToDepth(in, out, depth, limit) ==
    IF depth > limit THEN out = in
    ELSE IF in.t \in {"dict", "list"}
    THEN LET expected == IF in.t = "dict" THEN HarmlessEntries(in) ELSE in.kids
         IN /\ out.t = in.t
            /\ Len(out.kids) = Len(expected)
            /\ \A i \in 1..Len(expected) :
                  /\ out.kids[i].k = expected[i].k
                  /\ FilteredToDepth(expected[i].v, out.kids[i].v, depth + 1, limit)
    ELSE out = IF IsSensitiveValue(in) THEN VNone ELSE in

\* C20: filter_data is depth-bounded and fails open.  For an input nested
\* deeper than max_depth it returns a value in which the mappings and lists
\* at depth 0..max_depth are filtered as usual, in every branch, and every
\* subtree below that is the input's subtree, sensitive entries included.
C20_DepthBoundedFailOpen ==
    (pc = "filtered" /\ NestDepth(data) > max_depth) =>
        FilteredToDepth(data, filtered, 0, max_depth)

\* C20 witness: with the default max_depth, a mapping with a sensitive entry
\* at the top and {"api_key": ..., "note": "sk-abc123", ...} 25 levels down
\* lost the entry at the top and kept the deep mapping as it was.
C20_Witness ==
    /\ pc = "filtered"
    /\ max_depth = DEFAULT_MAX_DEPTH
    /\ data = VDict(<<Entry(K_api_key, VStr(S_hi)), Entry(K_note, VStr(S_hi)),
                      Entry(K_opts, Chain(SampleDict, DEFAULT_MAX_DEPTH + 4))>>)
    /\ filtered = VDict(<<Entry(K_note, VStr(S_hi)),
                          Entry(K_opts, Chain(SampleDict, DEFAULT_MAX_DEPTH + 4))>>)

\* how many save_config calls of the config-merge phase have returned: each
\* of them is followed by one reload call, a save_config that raised by none
SavesPersisted == started["reload"]

\* C26: configs_applied counts the plugins whose merged configuration
\* save_config has persisted.  At every moment of the config-merge phase,
\* and in the returned report, it equals the number of save_config calls
\* that returned: a save_config that raised is not counted, a reload that
\* raised after its save_config had returned leaves the count as it is, and
\* an item the loop skips (no call of save_config for it) is never counted.
C26_ConfigsAppliedCountsSaves ==
    /\ configs_applied = SavesPersisted
    /\ configs_applied >= reload_errors
    /\ \A n \in AllNames : called["reload"][n] <= called["save"][n]
    /\ PastConfig => \A n \in AllNames : called["reload"][n] <= ExpectedSaves(n)
    /\ ReportReturned =>
          /\ response.data[1].configs_applied = SavesPersisted
          /\ finished["save"] - response.data[1].configs_applied
                = started["save"] - started["reload"]

\* C26 witness: a report that counts one plugin, whose reload raised after
\* its save_config had returned, while the save_config of the other plugin
\* raised and is not counted.
C26_Witness ==
    /\ ReportReturned
    /\ response.data[1].configs_applied = 1
    /\ reload_errors = 1
    /\ finished["reload"] = 1
    /\ finished["save"] = 2

\* the request has been answered, or import_collection has raised
\* CancelledError
Terminal == pc \in {"responded", "cancelled"}

\* the semaphore of the install phase exists
GateCreated == pc = "gather" \/ PastInstall \/ (pc = "cancelled" /\ tasks # <<>>)

\* tasks that hold a permit: inside "async with sem", or woken by release()
\* with the permit already taken for them
Admitted == Cardinality({i \in TaskIds : tasks[i].st \in {"running", "granted"}})

\* the task i has passed "async with sem" and awaits install_plugin
Acquired(i) == i \in TaskIds /\ tasks[i].st = "running"

Accepted == pc \notin {"preview", "route"} /\ ValidateDict(req.collection)

\* C23: every document validation accepts has a non-empty name and a
\* non-empty repo in every entry of plugins, and install_plugin is never
\* called with an empty repo.
C23_NoEmptyNameOrRepo ==
    /\ Accepted =>
          \A i \in 1..Len(collection.plugins) :
              collection.plugins[i].name # "" /\ collection.plugins[i].repo # ""
    /\ \A i \in TaskIds : tasks[i].st # "new" => tasks[i].repo # ""

\* the plugin names of a sequence of entries
NamesOf(entries) == [i \in 1..Len(entries) |-> entries[i].name]

\* the names of the plugins install_plugin was called for, as a bag
InstallCalls == [n \in AllNames |-> called["install"][n]]
CountIn(names, n) == Cardinality({i \in 1..Len(names) : names[i] = n})

\* C24: preview is a faithful plan of the import that follows it.  In the
\* returned report of an import of the same document with the same
\* import_mode against the same installed plugins, install_plugin was
\* called exactly for the plugins of plugins_to_install, "skipped" names
\* exactly the plugins of plugins_to_skip, and uninstall_plugin was called
\* exactly for the plugins of plugins_to_uninstall.
C24_PreviewIsThePlan ==
    (ReportReturned /\ plan # NoPlan /\ ~reimported) =>
        /\ \A n \in AllNames :
              called["install"][n] = CountIn(NamesOf(plan[1].plugins_to_install), n)
        /\ NamesOf(skipped_results) = NamesOf(plan[1].plugins_to_skip)
        /\ \A n \in AllNames :
              called["uninstall"][n] = CountIn(plan[1].plugins_to_uninstall, n)

\* export has returned a document
Exported == pc = "responded" /\ response.status = "ok"

\* the installed plugins the document has to list, by the three tests of the
\* claim
Listable ==
    SelectSeq(stars, LAMBDA p : /\ p.name.t = "string"
                                /\ p.name.s # ""
                                /\ p.name.s \notin req.exclude_plugins
                                /\ p.repo.t = "string"
                                /\ p.repo.s # "")

\* C21: the document export returns lists, in enumeration order, exactly
\* the installed plugins whose name is not excluded and whose repo and name
\* are non-empty; metadata.plugin_count is the number of listed plugins;
\* every key of plugin_configs is the name of a listed plugin.
C21_ExportListsExportable ==
    Exported =>
        LET doc == response.data[1]
            listed == doc.plugins.items
        IN /\ Len(listed) = Len(Listable)
           /\ \A i \in 1..Len(listed) :
                 /\ listed[i].name = Listable[i].name
                 /\ listed[i].repo = Listable[i].repo
           /\ doc.metadata.plugin_count = JInt(Len(listed))
           /\ \A j \in 1..Len(doc.plugin_configs.items) :
                 \E i \in 1..Len(listed) :
                     listed[i].name = JStr(doc.plugin_configs.items[j].name)

\* C21 witness: a document of two plugins with one configuration, exported
\* from an installation that also holds an excluded plugin, one without
\* repo and one without name.
C21_Witness ==
    /\ Exported
    /\ Len(stars) = Len(ExportPool)
    /\ req.exclude_plugins = {"a"}
    /\ req.include_configs
    /\ Len(response.data[1].plugins.items) = 2
    /\ Len(response.data[1].plugin_configs.items) = 1

\* C22: round trip.  For every document export returns, from_dict of the
\* serialized document is the PluginCollection export serialized, and
\* serializing the parsed document again gives the same payload; with
\* plugin_configs or handler_priority_overrides absent and with
\* display_name None as well.
C22_RoundTrip ==
    Exported =>
        /\ ValidateDict(response.data[1])
        /\ response.data[1] = ToDict(collection)
        /\ FromDict(response.data[1]) = collection
        /\ ToDict(FromDict(response.data[1])) = response.data[1]

\* C22 witness: a document exported with the default options, with
\* plugin_configs and handler_priority_overrides, whose plugins have a
\* display_name and none.
C22_Witness ==
    /\ Exported
    /\ req.include_configs
    /\ req.include_priority
    /\ collection.plugin_configs.items # <<>>
    /\ collection.handler_priority_overrides.items # {}
    /\ \E i \in 1..Len(collection.plugins) : collection.plugins[i].display_name = JNull
    /\ \E i \in 1..Len(collection.plugins) : collection.plugins[i].display_name = JStr("A")

\* the same without plugin_configs and without handler_priority_overrides,
\* one display_name being the empty string
C22_WitnessAbsent ==
    /\ Exported
    /\ ~collection.plugin_configs.is_dict
    /\ ~collection.handler_priority_overrides.is_dict
    /\ response.data[1].plugin_configs.t = "absent"
    /\ response.data[1].handler_priority_overrides.t = "absent"
    /\ \E i \in 1..Len(collection.plugins) : collection.plugins[i].display_name = JNull
    /\ \E i \in 1..Len(collection.plugins) : collection.plugins[i].display_name = JStr("")

====
